---- MODULE Spec2Model ----
(***************************************************************************)
(* A model of the WebGL renderer of p5.js (p5.RendererGL, the material and *)
(* the light functions): the model-view matrix and the module-level matrix *)
(* stack, the shader cache (mHash), the uniform layer, the colour / blend  *)
(* state and the light counters.                                           *)
(*                                                                         *)
(* JavaScript objects that are shared by reference (p5.Matrix instances)   *)
(* live in a heap and are named by their index; every method is an         *)
(* operator from a world (renderer fields, GL context, heap, matrix stack) *)
(* to the world it leaves, so that a handler is the composition of the     *)
(* calls it makes.  A thrown exception keeps the writes made before it.    *)
(* Floating point numbers are modelled by integers: colour components by   *)
(* their level 0..255 (the float is level / 255), angles by quarter turns. *)
(***************************************************************************)
EXTENDS Integers, Sequences, FiniteSets, TLC

VARIABLES rend, gl, heap, uMVMatrixStack, loader, hist

vars == <<rend, gl, heap, uMVMatrixStack, loader, hist>>

-----------------------------------------------------------------------------
(* Bounds of the model *)

\* deepest matrix stack the calls build
MaxDepth == 2
\* most transform calls (translate, scale, rotate*) in one run
MaxTransforms == 2
\* most light calls of one kind in one run
MaxLights == 2
\* most _update() calls (frames) in one run
MaxFrames == 1
\* most setAttributes() calls in one run
MaxResets == 1
MaxShaders == 2
MaxAttributeCalls == 2
\* the canvas (createCanvas(Width, Height, WEBGL))
Width == 100
Height == 100

\* matrix objects that can be alive at once: the stack, the current matrix,
\* and the ones an operation allocates before the old ones are collected
NObj == MaxDepth + 3

-----------------------------------------------------------------------------
(* p5.Matrix: a 4x4 matrix is the 16-tuple mat4, column major *)

Identity == <<1,0,0,0, 0,1,0,0, 0,0,1,0, 0,0,0,1>>

\* p5.Matrix.prototype.translate(v): mat4[12..15] += mat4 * (x, y, z)
MatTranslate(m, v) ==
  LET x == v[1]  y == v[2]  z == v[3] IN
  [i \in 1..16 |->
     IF i <= 12 THEN m[i]
     ELSE m[i - 12] * x + m[i - 8] * y + m[i - 4] * z + m[i]]

\* p5.Matrix.prototype.scale(v): the first three columns times x, y, z
MatScale(m, v) ==
  [i \in 1..16 |->
     IF i <= 4 THEN m[i] * v[1]
     ELSE IF i <= 8 THEN m[i] * v[2]
     ELSE IF i <= 12 THEN m[i] * v[3]
     ELSE m[i]]

\* sine and cosine of q quarter turns
Sin(q) == <<0, 1, 0, -1>>[(q % 4) + 1]
Cos(q) == <<1, 0, -1, 0>>[(q % 4) + 1]

\* p5.Matrix.prototype.rotate(a, axis) for an axis of unit length and an
\* angle of q quarter turns
MatRotate(m, q, axis) ==
  LET x == axis[1]  y == axis[2]  z == axis[3]
      s == Sin(q)   c == Cos(q)   t == 1 - Cos(q)
      b00 == x * x * t + c      b01 == y * x * t + z * s
      b02 == z * x * t - y * s  b10 == x * y * t - z * s
      b11 == y * y * t + c      b12 == z * y * t + x * s
      b20 == x * z * t + y * s  b21 == y * z * t - x * s
      b22 == z * z * t + c
  IN [i \in 1..16 |->
       IF i <= 4 THEN m[i] * b00 + m[i + 4] * b01 + m[i + 8] * b02
       ELSE IF i <= 8 THEN m[i - 4] * b10 + m[i] * b11 + m[i + 4] * b12
       ELSE IF i <= 12 THEN m[i - 8] * b20 + m[i - 4] * b21 + m[i] * b22
       ELSE m[i]]

-----------------------------------------------------------------------------
(* The heap of p5.Matrix objects *)

\* a heap cell that holds no object
Free == <<>>

Live(h) == {i \in DOMAIN h : h[i] # Free}

\* new p5.Matrix(): the first free cell
Alloc(h) == CHOOSE i \in DOMAIN h : h[i] = Free /\ \A j \in DOMAIN h : j < i => h[j] # Free

Range(s) == {s[i] : i \in DOMAIN s}

\* Garbage collection: objects no reference reaches any more are dropped
\* and the others renamed in the order the stack and the renderer reach
\* them (object identity is kept, the names are not observable)
Refs(r, stack) == Append(stack, r.uMVMatrix)

Rank(refs, x) ==
  LET first == CHOOSE i \in DOMAIN refs : refs[i] = x /\ \A j \in 1..(i - 1) : refs[j] # x
  IN Cardinality({refs[j] : j \in 1..first})

Collect(h, r, stack) ==
  LET refs == Refs(r, stack) IN
  [k \in DOMAIN h |->
     IF \E x \in Range(refs) : Rank(refs, x) = k
       THEN h[CHOOSE x \in Range(refs) : Rank(refs, x) = k]
       ELSE Free]

-----------------------------------------------------------------------------
(* JavaScript values *)

\* a program reference: null, undefined, or a program object made by
\* gl.createProgram(); serial tells apart the objects made for one id pair
\* (the n-th _initShaders of the pair makes the object of serial n)
Null == [kind |-> "null", vert |-> "", frag |-> "", serial |-> 0, linked |-> FALSE]
Undefined == [kind |-> "undefined", vert |-> "", frag |-> "", serial |-> 0, linked |-> FALSE]
Program(v, f, n, l) == [kind |-> "program", vert |-> v, frag |-> f, serial |-> n, linked |-> l]

\* !x for a program reference
Falsy(p) == p.kind # "program"

\* the value of a property that was never assigned
UndefinedId == "undefined"

\* a value handed to _setUniform: a boolean, a number or an array of numbers
BoolVal(b) == [t |-> "bool", v |-> <<IF b THEN 1 ELSE 0>>]
NumVal(n) == [t |-> "num", v |-> <<n>>]
ArrVal(a) == [t |-> "arr", v |-> a]

\* an argument of a light call: a number, an object with x, y, z, or undefined
ArgNum(n) == [t |-> "num", v |-> <<n>>]
ArgVec(x, y, z) == [t |-> "vec", v |-> <<x, y, z>>]
\* an object without x, y, z, such as {}: its fields read as undefined
ArgObj == [t |-> "obj", v |-> <<>>]
ArgUndef == [t |-> "undef", v |-> <<>>]

-----------------------------------------------------------------------------
(* The colour resolver (p5.prototype.color): levels 0..255 in, floats out. *)
(* A float component is held as the integer 2 * level, so that 0.5 is 255  *)
(* and 1.0 is One.                                                         *)

One == 2 * 255

\* color(gray) | color(gray, a) | color(r, g, b) | color(r, g, b, a): _array
ResolveColor(args) ==
  IF Len(args) = 1 THEN <<2 * args[1], 2 * args[1], 2 * args[1], One>>
  ELSE IF Len(args) = 2 THEN <<2 * args[1], 2 * args[1], 2 * args[1], 2 * args[2]>>
  ELSE IF Len(args) = 3 THEN <<2 * args[1], 2 * args[2], 2 * args[3], One>>
  ELSE <<2 * args[1], 2 * args[2], 2 * args[3], 2 * args[4]>>

-----------------------------------------------------------------------------
(* The shader sources and what the GL reports about a linked program *)

\* the length of the light arrays the light shader declares
LightCapacity == 8

U(name, type, size) == [name |-> name, type |-> type, size |-> size]

\* the active uniforms of a vertex stage, as gl.getActiveUniform names them
VertUniforms(vertId) ==
  LET matrices == << U(<<"uModelViewMatrix">>, "FLOAT_MAT4", 1),
                     U(<<"uProjectionMatrix">>, "FLOAT_MAT4", 1) >>
  IN IF vertId = "normalVert"
       THEN matrices \o << U(<<"uNormalMatrix">>, "FLOAT_MAT3", 1) >>
     ELSE IF vertId = "immediateVert"
       THEN matrices \o << U(<<"uPointSize">>, "FLOAT", 1) >>
     ELSE IF vertId = "lightVert"
       THEN matrices \o
            << U(<<"uNormalMatrix">>, "FLOAT_MAT3", 1),
               U(<<"uAmbientLightCount">>, "INT", 1),
               U(<<"uDirectionalLightCount">>, "INT", 1),
               U(<<"uPointLightCount">>, "INT", 1),
               U(<<"uAmbientColor", "[0]">>, "FLOAT_VEC3", LightCapacity),
               U(<<"uLightingDirection", "[0]">>, "FLOAT_VEC3", LightCapacity),
               U(<<"uDirectionalColor", "[0]">>, "FLOAT_VEC3", LightCapacity),
               U(<<"uPointLightLocation", "[0]">>, "FLOAT_VEC3", LightCapacity),
               U(<<"uPointLightColor", "[0]">>, "FLOAT_VEC3", LightCapacity),
               U(<<"uSpecular">>, "BOOL", 1) >>
     ELSE << >>

\* the active uniforms of a fragment stage
FragUniforms(fragId) ==
  IF fragId = "basicFrag"
    THEN << U(<<"uMaterialColor">>, "FLOAT_VEC4", 1) >>
  ELSE IF fragId = "lightTextureFrag"
    THEN << U(<<"uMaterialColor">>, "FLOAT_VEC4", 1),
            U(<<"uSampler">>, "SAMPLER_2D", 1),
            U(<<"isTexture">>, "BOOL", 1),
            U(<<"uUseLighting">>, "BOOL", 1) >>
  ELSE << >>

\* the number of components of one element of a uniform of a type
Components(type) ==
  IF type = "FLOAT_VEC2" THEN 2
  ELSE IF type = "FLOAT_VEC3" THEN 3
  ELSE IF type = "FLOAT_VEC4" THEN 4
  ELSE IF type = "FLOAT_MAT3" THEN 9
  ELSE IF type = "FLOAT_MAT4" THEN 16
  ELSE 1

\* the value a uniform holds after linking: zeros
Zeros(n) == [i \in 1..n |-> 0]

-----------------------------------------------------------------------------
(* Shader introspection, p5.RendererGL.prototype._initShaders *)

\* the pairs of shader ids the library asks for
ShaderPairs ==
  { <<"normalVert", "normalFrag">>, <<"normalVert", "basicFrag">>,
    <<"immediateVert", "vertexColorFrag">>, <<"lightVert", "lightTextureFrag">> }

\* uniformName.indexOf('[0]'), counted from 1; 0 when absent
IndexOf(name, tok) ==
  IF \E i \in DOMAIN name : name[i] = tok
    THEN CHOOSE i \in DOMAIN name : name[i] = tok /\ \A j \in 1..(i - 1) : name[j] # tok
    ELSE 0

\* the name a uniform is stored under: array uniforms lose their '[0]'
TrimName(info) ==
  IF info.size > 1
    THEN SubSeq(info.name, 1, IndexOf(info.name, "[0]") - 1)
    ELSE info.name

\* shaderProgram.uniforms of a linked program built from the sources act:
\* name -> {name, type, size, samplerIndex}; samplers are numbered in the
\* order they are met
Introspect(act) ==
  LET idx(n) == CHOOSE i \in DOMAIN act : TrimName(act[i]) = n
  IN [n \in {TrimName(act[i]) : i \in DOMAIN act} |->
        [name |-> n, type |-> act[idx(n)].type, size |-> act[idx(n)].size,
         samplerIndex |-> Cardinality({j \in 1..(idx(n) - 1) : act[j].type = "SAMPLER_2D"})]]

UniformsByPair ==
  [pr \in ShaderPairs |-> Introspect(VertUniforms(pr[1]) \o FragUniforms(pr[2]))]

NoUniforms == [n \in {} |-> 0]

\* shaderProgram.uniforms, read once from the program when it is made
uniformsOf(p) ==
  IF p.kind = "program" /\ p.linked /\ <<p.vert, p.frag>> \in ShaderPairs
    THEN UniformsByPair[<<p.vert, p.frag>>]
    ELSE NoUniforms

-----------------------------------------------------------------------------
(* The WebGL context.  A world is what a method reads and writes: the      *)
(* renderer's fields, the context, the matrix heap, the matrix stack, the  *)
(* value the method returns and whether it threw.                          *)

World == [rend |-> rend, gl |-> gl, heap |-> heap, stack |-> uMVMatrixStack,
          ret |-> Undefined, thrown |-> FALSE]

\* return value;
Return(w, value) == [w EXCEPT !.ret = value]

\* throw new Error(...) or a TypeError
Throw(w) == [w EXCEPT !.thrown = TRUE, !.ret = Undefined]

\* one GL command, noted in the log of the running call
GlLog(w, fn, p, name) ==
  [w EXCEPT !.gl.log = Append(@, [fn |-> fn, prog |-> p, name |-> name])]

\* gl.useProgram(p): null unbinds; a program that is not linked is refused
\* (INVALID_OPERATION) and the program in use stays
glUseProgram(w, p) ==
  [GlLog(w, "useProgram", p, <<>>) EXCEPT
     !.gl.program = IF p.kind # "program" THEN Null
                    ELSE IF p.linked THEN p ELSE @]

\* gl.uniform*(location, ...): the location belongs to program p and is
\* written only while p is the program in use
glUniform(w, fn, p, name, val) ==
  IF w.gl.program = p /\ p \in DOMAIN w.gl.uniforms
    THEN [GlLog(w, fn, p, name) EXCEPT !.gl.uniforms[p][name] = val]
    ELSE GlLog(w, fn, p, name)

\* gl.enable(gl.BLEND) / gl.disable(gl.BLEND)
glBlend(w, on) ==
  [GlLog(w, IF on THEN "enable" ELSE "disable", Null, <<"BLEND">>)
     EXCEPT !.gl.blend = on]

\* gl.depthMask(flag)
glDepthMask(w, flag) ==
  [GlLog(w, "depthMask", Null, <<IF flag THEN "true" ELSE "false">>)
     EXCEPT !.gl.depthMask = flag]

\* gl.blendEquation(gl.FUNC_ADD), the equation a context starts with
glBlendEquationAdd(w) == GlLog(w, "blendEquation", Null, <<"FUNC_ADD">>)

\* gl.blendFunc(gl.SRC_ALPHA, gl.ONE_MINUS_SRC_ALPHA)
glBlendFuncAlpha(w) ==
  [GlLog(w, "blendFunc", Null, <<"SRC_ALPHA", "ONE_MINUS_SRC_ALPHA">>)
     EXCEPT !.gl.blendFunc = "SRC_ALPHA"]

\* gl.activeTexture(gl.TEXTURE0 + unit); gl.bindTexture(gl.TEXTURE_2D, tex)
glBindTexture(w, unit, tex) ==
  [GlLog(GlLog(w, "activeTexture", Null, <<>>), "bindTexture", Null, <<>>)
     EXCEPT !.gl.activeTexture = unit, !.gl.boundTexture[unit] = tex]

\* alert(...): the diagnostic of a failed compile or link
Alert(w, what) == GlLog(w, "alert", Null, <<what>>)

\* the first n components of an array argument
Take(v, n) == [i \in 1..n |-> v[i]]

\* gl.uniform{1,2,3,4}fv(location, data) on an array uniform: data replaces
\* the leading components, the others stay
Overlay(old, data) ==
  [i \in 1..Len(old) |-> IF i <= Len(data) THEN data[i] ELSE old[i]]

-----------------------------------------------------------------------------
(* The shader layer of p5.RendererGL *)

\* what the GL makes of one request to build a program
CompileOutcomes == {"ok", "vertFail", "fragFail", "linkFail"}

MId(vertId, fragId) == vertId \o "|" \o fragId

LightId == MId("lightVert", "lightTextureFrag")

\* this.mHash[key]
HashGet(r, key) == IF key \in DOMAIN r.mHash THEN r.mHash[key] ELSE Undefined

\* this.mHash[key] = value
HashPut(h, key, value) ==
  [k \in DOMAIN h \cup {key} |-> IF k = key THEN value ELSE h[k]]

\* the stages are compiled: one more build of the pair is under way
Compiling(w, vertId, fragId) ==
  [w EXCEPT !.gl.inits[<<vertId, fragId>>] = @ + 1]

\* gl.createProgram(), attach, gl.linkProgram(p) and the check of LINK_STATUS
LinkProgram(w, p) ==
  IF p.linked
    THEN GlLog(w, "linkProgram", p, <<>>)
    ELSE Alert(GlLog(w, "linkProgram", p, <<>>), "Snap")

\* the uniforms of the new program are read and hold zeros
InspectProgram(w, p) ==
  IF p.linked
    THEN [w EXCEPT
            !.ret = p,
            !.gl.uniforms =
               [q \in DOMAIN @ \cup {p} |->
                  IF q = p
                    THEN [u \in DOMAIN uniformsOf(p) |->
                            Zeros(Components(uniformsOf(p)[u].type) * uniformsOf(p)[u].size)]
                    ELSE @[q]]]
    ELSE Return(w, p)

BuildProgram(w, vertId, fragId, oc) ==
  IF oc = "vertFail" THEN Return(Alert(w, "Yikes"), Null)
  ELSE IF oc = "fragFail" THEN Return(Alert(w, "Darn"), Null)
  ELSE InspectProgram(
         LinkProgram(w, Program(vertId, fragId, w.gl.inits[<<vertId, fragId>>],
                                oc # "linkFail")),
         Program(vertId, fragId, w.gl.inits[<<vertId, fragId>>], oc # "linkFail"))

_initShaders(w, vertId, fragId, oc) ==
  BuildProgram(Compiling(w, vertId, fragId), vertId, fragId, oc)

\* materialInHash that takes a null entry for a missing one
materialInHash_Truthy(r, mId) == ~Falsy(HashGet(r, mId))

materialInHash(r, mId) == HashGet(r, mId) # Undefined

\* a _getShader that notes the new shader and leaves the cache as it is
StoreShader_Forget(w, mId) == [w EXCEPT !.rend.newShader = TRUE]

\* this.mHash[mId] = shaderProgram; this.newShader = true
StoreShader(w, mId) ==
  [w EXCEPT !.rend.mHash = HashPut(@, mId, w.ret), !.rend.newShader = TRUE]

\* this.curShaderId = mId; return this.mHash[this.curShaderId]
SelectShader(w, mId) ==
  [w EXCEPT !.rend.curShaderId = mId, !.ret = HashGet(w.rend, mId)]

_getShader(w, vertId, fragId, oc) ==
  SelectShader(IF ~materialInHash(w.rend, MId(vertId, fragId))
                 THEN StoreShader(_initShaders(w, vertId, fragId, oc),
                                  MId(vertId, fragId))
                 ELSE w,
               MId(vertId, fragId))

\* _useShader without the comparison with the current shader
_useShader_Always(w, shaderProgram) ==
  [glUseProgram(w, shaderProgram)
     EXCEPT !.rend.curShader = shaderProgram, !.ret = shaderProgram]

_useShader(w, shaderProgram) ==
  IF shaderProgram = w.rend.curShader
    THEN Return(w, Undefined)
    ELSE [glUseProgram(w, shaderProgram)
            EXCEPT !.rend.curShader = shaderProgram, !.ret = shaderProgram]

\* shaderProgram = this._getShader(...); this._useShader(shaderProgram)
UseReturned(w) == _useShader(w, w.ret)

\* the gl.uniform* call the switch on uniform.type picks
UniformCall(uniform) ==
  IF uniform.type \in {"BOOL", "INT", "SAMPLER_2D"} THEN "uniform1i"
  ELSE IF uniform.type \in {"FLOAT_MAT3", "FLOAT_MAT4"} THEN "uniformMatrixfv"
  ELSE IF uniform.size > 1 THEN "uniformfv"
  ELSE "uniformf"

\* the value that call leaves in the uniform that held old
UniformValue(uniform, old, data) ==
  IF uniform.type = "BOOL" THEN (IF data = BoolVal(TRUE) THEN <<1>> ELSE <<0>>)
  ELSE IF uniform.type = "INT" THEN Take(data.v, 1)
  ELSE IF uniform.type = "SAMPLER_2D" THEN <<uniform.samplerIndex>>
  ELSE IF uniform.type \in {"FLOAT_MAT3", "FLOAT_MAT4"} THEN Overlay(old, data.v)
  ELSE IF uniform.size > 1 THEN Overlay(old, data.v)
  ELSE Take(data.v, Components(uniform.type))

\* the cases of the switch on uniform.type
WriteUniform(w, p, uniform, data) ==
  glUniform(IF uniform.type = "SAMPLER_2D"
              THEN glBindTexture(w, uniform.samplerIndex, data.v[1])
              ELSE w,
            UniformCall(uniform), p, uniform.name,
            UniformValue(uniform,
                         IF p \in DOMAIN w.gl.uniforms
                           THEN w.gl.uniforms[p][uniform.name]
                           ELSE Zeros(Components(uniform.type) * uniform.size),
                         data))

\* _setUniform that throws on a name the current shader does not declare
_setUniform_Throws(w, uniformName, data) ==
  IF Falsy(w.rend.curShader) THEN w
  ELSE IF uniformName \notin DOMAIN uniformsOf(w.rend.curShader) THEN Throw(w)
  ELSE WriteUniform(w, w.rend.curShader,
                    uniformsOf(w.rend.curShader)[uniformName], data)

\* the programs other than the current shader that declare the uniform
Declaring(w, uniformName) ==
  {q \in DOMAIN w.gl.uniforms :
     q # w.rend.curShader /\ uniformName \in DOMAIN uniformsOf(q)}

\* _setUniform that hands a write the current shader does not take to
\* another program that declares the uniform
_setUniform_Stray(w, uniformName, data) ==
  IF Falsy(w.rend.curShader) THEN w
  ELSE IF uniformName \notin DOMAIN uniformsOf(w.rend.curShader)
    THEN [w EXCEPT !.gl.uniforms =
            [q \in DOMAIN @ |->
               IF q \in Declaring(w, uniformName)
                 THEN [@[q] EXCEPT ![uniformName] =
                         UniformValue(uniformsOf(q)[uniformName], @, data)]
                 ELSE @[q]]]
  ELSE WriteUniform(w, w.rend.curShader,
                    uniformsOf(w.rend.curShader)[uniformName], data)

_setUniform(w, uniformName, data) ==
  IF Falsy(w.rend.curShader) THEN w
  ELSE IF uniformName \notin DOMAIN uniformsOf(w.rend.curShader) THEN w
  ELSE WriteUniform(w, w.rend.curShader,
                    uniformsOf(w.rend.curShader)[uniformName], data)

\* _getCurShaderId: the id returned is this.curShaderId of the world left
_getCurShaderId(w, oc) ==
  IF w.rend.drawMode # "fill" /\ w.rend.curShaderId = UndefinedId
    THEN Return(_getShader(w, "normalVert", "normalFrag", oc), Undefined)
  ELSE IF w.rend.isImmediateDrawing /\ w.rend.drawMode = "fill"
    THEN Return(_getShader(w, "immediateVert", "vertexColorFrag", oc), Undefined)
  ELSE w

\* the determinant of the upper left 3x3 of a mat4
Det3(m) ==
    m[1] * (m[6] * m[11] - m[7] * m[10])
  - m[5] * (m[2] * m[11] - m[3] * m[10])
  + m[9] * (m[2] * m[7] - m[3] * m[6])

\* the cofactors of the upper left 3x3 of a mat4, column by column
Cofactors3(m) ==
  << m[6] * m[11] - m[7] * m[10], m[7] * m[9] - m[5] * m[11], m[5] * m[10] - m[6] * m[9],
     m[3] * m[10] - m[2] * m[11], m[1] * m[11] - m[3] * m[9], m[2] * m[9] - m[1] * m[10],
     m[2] * m[7] - m[3] * m[6], m[3] * m[5] - m[1] * m[7], m[1] * m[6] - m[2] * m[5] >>

\* this.uNMatrix.inverseTranspose(this.uMVMatrix), in thousandths: the
\* cofactors over the determinant; a matrix without inverse gives zeros
InverseTranspose(m) ==
  IF Det3(m) = 0 THEN Zeros(9)
  ELSE [i \in 1..9 |-> (Cofactors3(m)[i] * 1000) \div Det3(m)]

_setMatrixUniforms(w, shaderKey) ==
  Return(
    _setUniform(
      _setUniform(
        _setUniform(_useShader(w, HashGet(w.rend, shaderKey)),
                    <<"uProjectionMatrix">>, ArrVal(w.rend.uPMatrix)),
        <<"uModelViewMatrix">>, ArrVal(w.heap[w.rend.uMVMatrix])),
      <<"uNormalMatrix">>, ArrVal(InverseTranspose(w.heap[w.rend.uMVMatrix]))),
    Undefined)

-----------------------------------------------------------------------------
(* Colour and draw mode *)

\* _applyColorBlend that leaves blending as it is for an opaque colour
_applyColorBlend_Sticky(w, args) ==
  IF ResolveColor(args)[Len(ResolveColor(args))] < One
    THEN glBlendFuncAlpha(glBlendEquationAdd(glBlend(glDepthMask(w, FALSE), TRUE)))
    ELSE glDepthMask(w, TRUE)

_applyColorBlend(w, args) ==
  IF ResolveColor(args)[Len(ResolveColor(args))] < One
    THEN glBlendFuncAlpha(glBlendEquationAdd(glBlend(glDepthMask(w, FALSE), TRUE)))
    ELSE glBlend(glDepthMask(w, TRUE), FALSE)

\* this.curFillColor = colors; this.drawMode = 'fill'
SetFill(w, colors) ==
  [w EXCEPT !.rend.curFillColor = colors, !.rend.drawMode = "fill"]

\* fill() that takes the flat-colour program in the immediate mode too
FillShader_Flat(w, colors, oc) ==
  _setUniform(UseReturned(_getShader(w, "normalVert", "basicFrag", oc)),
              <<"uMaterialColor">>, ArrVal(colors))

\* the two branches on this.isImmediateDrawing
FillShader(w, colors, oc) ==
  IF w.rend.isImmediateDrawing
    THEN UseReturned(_getShader(w, "immediateVert", "vertexColorFrag", oc))
    ELSE _setUniform(UseReturned(_getShader(w, "normalVert", "basicFrag", oc)),
                     <<"uMaterialColor">>, ArrVal(colors))

fill(w, args, oc) ==
  Return(FillShader(SetFill(_applyColorBlend(w, args), ResolveColor(args)),
                    ResolveColor(args), oc),
         Undefined)

\* this._setUniform('uMaterialColor', this.curStrokeColor)
SetStrokeUniform(w) ==
  _setUniform(w, <<"uMaterialColor">>, ArrVal(w.rend.curStrokeColor))

_setNoFillStroke(w) ==
  SetStrokeUniform(_useShader(w, HashGet(w.rend, w.rend.curShaderId)))

\* this.drawMode = 'wireframe'
SetWireframe(w) == [w EXCEPT !.rend.drawMode = "wireframe"]

noFill(w, oc) ==
  Return(_setNoFillStroke(
           SetWireframe(
             glBlendFuncAlpha(
               glBlend(UseReturned(_getShader(w, "normalVert", "basicFrag", oc)),
                       TRUE)))),
         Undefined)

\* this.curStrokeColor = colorNormalized
SetStroke(w, colors) == [w EXCEPT !.rend.curStrokeColor = colors]

stroke(w, args) ==
  Return(IF w.rend.drawMode = "wireframe"
           THEN _setNoFillStroke(SetStroke(w, ResolveColor(args)))
           ELSE SetStroke(w, ResolveColor(args)),
         Undefined)

\* beginShape() / endShape() of the immediate mode: per-vertex colouring
\* is active between them
beginShape(w) == [w EXCEPT !.rend.isImmediateDrawing = TRUE]
endShape(w) == [w EXCEPT !.rend.isImmediateDrawing = FALSE]

-----------------------------------------------------------------------------
(* Materials.  The renderer's setShader and _getLightShader and the        *)
(* shader object's isLightShader and setUniform are stated by the design:  *)
(* they select the light-capable program and write its uniforms.           *)

isLightShader(p) == MId(p.vert, p.frag) = LightId

_getLightShader(w, oc) == _getShader(w, "lightVert", "lightTextureFrag", oc)

\* renderer.setShader(s): s becomes the current shader and is returned
setShader(w) == Return(_useShader(w, w.ret), w.ret)

\* the shader the material writes to, left in ret
MaterialShader(w, oc) ==
  IF ~isLightShader(w.rend.curShader)
    THEN setShader(_getLightShader(w, oc))
    ELSE Return(w, w.rend.curShader)

\* shader.setUniform(name, data); on null or undefined the call throws
ShaderSetUniform(w, shader, name, data) ==
  IF w.thrown THEN w
  ELSE IF Falsy(shader) THEN Throw(w)
  ELSE _setUniform(w, name, data)

\* the three uniforms of a material, on the shader chosen
MaterialUniforms(w, shader, colors, specular) ==
  ShaderSetUniform(
    ShaderSetUniform(
      ShaderSetUniform(w, shader, <<"uMaterialColor">>, ArrVal(colors)),
      shader, <<"uSpecular">>, BoolVal(specular)),
    shader, <<"isTexture">>, BoolVal(FALSE))

\* var colors = _applyColorBlend(...); the shader chosen stays in ret
MaterialBlend(w, args, specular) ==
  MaterialUniforms(Return(_applyColorBlend(w, args), w.ret), w.ret,
                   ResolveColor(args), specular)

Material(w, args, oc, specular) ==
  IF Falsy(w.rend.curShader) THEN Throw(w)
  ELSE Return(MaterialBlend(MaterialShader(w, oc), args, specular), Undefined)

\* ambientMaterial that starts the lights over
ambientMaterial_Reset(w, args, oc) ==
  [Material(w, args, oc, FALSE) EXCEPT
     !.rend.ambientLightCount = 0,
     !.rend.directionalLightCount = 0,
     !.rend.pointLightCount = 0]

ambientMaterial(w, args, oc) == Material(w, args, oc, FALSE)

specularMaterial(w, args, oc) == Material(w, args, oc, TRUE)

\* renderer._getNormalShader(): the program of normalMaterial()
_getNormalShader(w, oc) == _getShader(w, "normalVert", "normalFrag", oc)

normalMaterial(w, oc) == Return(setShader(_getNormalShader(w, oc)), Undefined)

\* shader.isTextureShader(): the light program samples the texture
isTextureShader(p) == MId(p.vert, p.frag) = LightId

\* gl.depthMask(true); gl.enable(gl.BLEND); gl.blendFunc(...);
\* renderer.drawMode = 'texture'
TextureMode(w) ==
  [glBlendFuncAlpha(glBlend(glDepthMask(w, TRUE), TRUE))
     EXCEPT !.rend.drawMode = "texture"]

\* the shader texture() writes to, left in ret
TextureShader(w, oc) ==
  IF ~isTextureShader(w.rend.curShader)
    THEN setShader(_getLightShader(w, oc))
    ELSE Return(w, w.rend.curShader)

\* the three uniforms of texture(), on the shader chosen
TextureUniforms(w, shader, tex) ==
  ShaderSetUniform(
    ShaderSetUniform(
      ShaderSetUniform(w, shader, <<"uSpecular">>, BoolVal(FALSE)),
      shader, <<"isTexture">>, BoolVal(TRUE)),
    shader, <<"uSampler">>, ArrVal(<<tex>>))

\* texture() from var shader = renderer.curShader on
TextureSelect(w, tex, oc) ==
  IF Falsy(w.rend.curShader) THEN Throw(w)
  ELSE Return(TextureUniforms(TextureShader(w, oc), TextureShader(w, oc).ret, tex),
              Undefined)

texture(w, tex, oc) == TextureSelect(TextureMode(w), tex, oc)

-----------------------------------------------------------------------------
(* Lights *)

White == <<One, One, One, One>>

\* renderer._useShader(renderer._getShader('lightVert', 'lightTextureFrag'))
UseLightShader(w, oc) ==
  UseReturned(_getShader(w, "lightVert", "lightTextureFrag", oc))

\* renderer._setUniform('uUseLighting', true); return this
LightingOn(w) == Return(_setUniform(w, <<"uUseLighting">>, BoolVal(TRUE)), Undefined)

\* renderer._setUniform('uAmbientLightCount', renderer.ambientLightCount)
SetAmbientCount(w) ==
  _setUniform(w, <<"uAmbientLightCount">>, NumVal(w.rend.ambientLightCount))

\* renderer.ambientLightCount++
AddAmbient(w) == [w EXCEPT !.rend.ambientLightCount = @ + 1]

\* ambientLight that does not turn uUseLighting on
ambientLight_NoFlag(w, args, oc) ==
  Return(
    SetAmbientCount(
      AddAmbient(
        _setUniform(
          _setUniform(UseLightShader(w, oc),
                      <<"uAmbientColor", "[0]">>, ArrVal(Take(ResolveColor(args), 3))),
          <<"uMaterialColor">>, ArrVal(White)))),
    Undefined)

ambientLight(w, args, oc) ==
  LightingOn(
    SetAmbientCount(
      AddAmbient(
        _setUniform(
          _setUniform(UseLightShader(w, oc),
                      <<"uAmbientColor", "[0]">>, ArrVal(Take(ResolveColor(args), 3))),
          <<"uMaterialColor">>, ArrVal(White)))))

\* the colour of a directional or point light: color(v1, v2, v3)
LightColor(args) == Take(ResolveColor(<<args[1].v[1], args[2].v[1], args[3].v[1]>>), 3)

\* typeof args[args.length-1] === 'number' ? the last three arguments
\*                                         : the x, y, z of the last one
LastIsNumber(args) == args[Len(args)].t = "num"
LastThrows(args) == args[Len(args)].t = "undef"
Direction(args) ==
  IF LastIsNumber(args)
    THEN <<args[Len(args) - 2].v[1], args[Len(args) - 1].v[1], args[Len(args)].v[1]>>
    ELSE args[Len(args)].v

SetDirectionalCount(w) ==
  _setUniform(w, <<"uDirectionalLightCount">>, NumVal(w.rend.directionalLightCount))

AddDirectional(w) == [w EXCEPT !.rend.directionalLightCount = @ + 1]

\* what directionalLight does once _x, _y, _z are read
DirectionalLit(w, args) ==
  LightingOn(
    SetDirectionalCount(
      AddDirectional(
        _setUniform(
          _setUniform(w, <<"uMaterialColor">>, ArrVal(White)),
          <<"uLightingDirection", "[0]">>, ArrVal(Direction(args))))))

\* a read of the direction that comes after the counter
DirectionalRead_Counted(w, args) ==
  IF LastThrows(args) THEN Throw(AddDirectional(w)) ELSE DirectionalLit(w, args)

\* reading .x of undefined throws
DirectionalRead(w, args) ==
  IF LastThrows(args) THEN Throw(w) ELSE DirectionalLit(w, args)

directionalLight(w, args, oc) ==
  DirectionalRead(
    _setUniform(UseLightShader(w, oc),
                <<"uDirectionalColor", "[0]">>, ArrVal(LightColor(args))),
    args)

SetPointCount(w) ==
  _setUniform(w, <<"uPointLightCount">>, NumVal(w.rend.pointLightCount))

AddPoint(w) == [w EXCEPT !.rend.pointLightCount = @ + 1]

\* a point light that leaves the material colour
PointLit_KeepColor(w, args) ==
  LightingOn(
    SetPointCount(
      AddPoint(
        _setUniform(w, <<"uPointLightLocation", "[0]">>, ArrVal(Direction(args))))))

PointLit(w, args) ==
  LightingOn(
    SetPointCount(
      AddPoint(
        _setUniform(
          _setUniform(w, <<"uMaterialColor">>, ArrVal(White)),
          <<"uPointLightLocation", "[0]">>, ArrVal(Direction(args))))))

PointRead(w, args) ==
  IF LastThrows(args) THEN Throw(w) ELSE PointLit(w, args)

pointLight(w, args, oc) ==
  PointRead(
    _setUniform(UseLightShader(w, oc),
                <<"uPointLightColor", "[0]">>, ArrVal(LightColor(args))),
    args)

-----------------------------------------------------------------------------
(* Transforms and the matrix stack *)

\* translate that hands y on as it is
translate_NoFlip(w, x, y, z) ==
  [w EXCEPT !.heap[w.rend.uMVMatrix] = MatTranslate(@, <<x, y, z>>)]

translate(w, x, y, z) ==
  [w EXCEPT !.heap[w.rend.uMVMatrix] = MatTranslate(@, <<x, -y, z>>)]

scale(w, x, y, z) ==
  [w EXCEPT !.heap[w.rend.uMVMatrix] = MatScale(@, <<x, y, z>>)]

rotate(w, rad, axis) ==
  [w EXCEPT !.heap[w.rend.uMVMatrix] = MatRotate(@, rad, axis)]

rotateX(w, rad) == rotate(w, rad, <<1, 0, 0>>)

rotateY(w, rad) == rotate(w, rad, <<0, 1, 0>>)

rotateZ(w, rad) == rotate(w, rad, <<0, 0, 1>>)

\* this.uMVMatrix = p5.Matrix.identity(): a new matrix object
SetIdentity(w) ==
  LET id == Alloc(w.heap) IN
  [w EXCEPT !.heap[id] = Identity, !.rend.uMVMatrix = id]

\* push() that saves the matrix object itself instead of a copy of it
push_NoCopy(w) ==
  [w EXCEPT !.stack = Append(@, w.rend.uMVMatrix)]

\* this.uMVMatrix.copy(): a new matrix object with the same entries
push(w) ==
  LET id == Alloc(w.heap) IN
  [w EXCEPT !.heap[id] = w.heap[w.rend.uMVMatrix], !.stack = Append(@, id)]

\* pop() that installs a fresh identity matrix when the stack is empty
pop_Identity(w) ==
  IF Len(w.stack) = 0
    THEN SetIdentity(w)
    ELSE [w EXCEPT !.rend.uMVMatrix = w.stack[Len(w.stack)],
                   !.stack = SubSeq(@, 1, Len(@) - 1)]

\* pop() that reads the top of the stack and leaves it there
pop_Peek(w) ==
  IF Len(w.stack) = 0
    THEN Throw(w)
    ELSE [w EXCEPT !.rend.uMVMatrix = w.stack[Len(w.stack)]]

\* pop() that also puts the draw mode back to 'fill'
pop_DrawMode(w) ==
  IF Len(w.stack) = 0
    THEN Throw(w)
    ELSE [w EXCEPT !.rend.uMVMatrix = w.stack[Len(w.stack)],
                   !.stack = SubSeq(@, 1, Len(@) - 1),
                   !.rend.drawMode = "fill"]

pop(w) ==
  IF Len(w.stack) = 0
    THEN Throw(w)
    ELSE [w EXCEPT !.rend.uMVMatrix = w.stack[Len(w.stack)],
                   !.stack = SubSeq(@, 1, Len(@) - 1)]

\* (height / 2) / tan(PI * 30 / 180), to the nearest unit below
CameraZ(h) == (h * 866) \div 1000

\* the three light counters are set to 0
ResetLights(w) ==
  [w EXCEPT !.rend.ambientLightCount = 0,
            !.rend.directionalLightCount = 0,
            !.rend.pointLightCount = 0]

\* _update that leaves the point light counter as it is
\* _update() that puts the draw mode back to 'fill' at the start of a frame
_update_Mode(w) ==
  [ResetLights(translate(SetIdentity(w), 0, 0, -CameraZ(w.rend.height)))
     EXCEPT !.rend.drawMode = "fill"]

_update_KeepPoint(w) ==
  [translate(SetIdentity(w), 0, 0, -CameraZ(w.rend.height))
     EXCEPT !.rend.ambientLightCount = 0, !.rend.directionalLightCount = 0]

\* a frame start that empties the matrix stack
_update_ClearStack(w) ==
  [ResetLights(translate(SetIdentity(w), 0, 0, -CameraZ(w.rend.height)))
     EXCEPT !.stack = <<>>]

_update(w) ==
  ResetLights(translate(SetIdentity(w), 0, 0, -CameraZ(w.rend.height)))

resetMatrix(w) == translate(SetIdentity(w), 0, 0, -800)

-----------------------------------------------------------------------------
(* Camera and projection.  The entries of uPMatrix are kept in thousandths. *)

IdentityP == [i \in 1..16 |-> 1000 * Identity[i]]

\* 1 / tan(fovy / 2) in thousandths, for fovy in degrees
Cot(fovy) == IF fovy = 90 THEN 1000 ELSE 1732

\* p5.Matrix.prototype.perspective(fovy, aspect, near, far), aspect aw / ah:
\* every entry of the matrix is set
MatPerspective(m, fovy, aw, ah, near, far) ==
  [i \in 1..16 |->
     IF i = 1 THEN (Cot(fovy) * ah) \div aw
     ELSE IF i = 6 THEN Cot(fovy)
     ELSE IF i = 11 THEN ((far + near) * 1000) \div (near - far)
     ELSE IF i = 12 THEN -1000
     ELSE IF i = 15 THEN (2 * far * near * 1000) \div (near - far)
     ELSE 0]

\* p5.Matrix.prototype.ortho(left, right, bottom, top, near, far): every
\* entry of the matrix is set
MatOrtho(m, left, right, bottom, top, near, far) ==
  [i \in 1..16 |->
     IF i = 1 THEN (-2000) \div (left - right)
     ELSE IF i = 6 THEN (-2000) \div (bottom - top)
     ELSE IF i = 11 THEN 2000 \div (near - far)
     ELSE IF i = 13 THEN ((left + right) * 1000) \div (left - right)
     ELSE IF i = 14 THEN ((top + bottom) * 1000) \div (bottom - top)
     ELSE IF i = 15 THEN ((far + near) * 1000) \div (near - far)
     ELSE IF i = 16 THEN 1000
     ELSE 0]

\* an argument that || passes over: undefined (not given) and 0
IsFalsy(a) == a.t = "undef" \/ a.v[1] = 0

\* an || that passes over undefined only
Or_Nullish(a, b) == IF a.t = "undef" THEN b ELSE a.v[1]

\* a || b, for an argument a and its default b
Or(a, b) == IF IsFalsy(a) THEN b ELSE a.v[1]

Max(a, b) == IF a >= b THEN a ELSE b

\* a default camera that replaces whatever camera there is
_setDefaultCamera_Unguarded(w) ==
  [w EXCEPT
     !.rend.uPMatrix =
        MatPerspective(IdentityP, 60, w.rend.width, w.rend.height,
                       CameraZ(w.rend.height) \div 10,
                       CameraZ(w.rend.height) * 10),
     !.rend._curCamera = "default"]

_setDefaultCamera(w) ==
  IF w.rend._curCamera = "null"
    THEN [w EXCEPT
            !.rend.uPMatrix =
               MatPerspective(IdentityP, 60, w.rend.width, w.rend.height,
                              CameraZ(w.rend.height) \div 10,
                              CameraZ(w.rend.height) * 10),
            !.rend._curCamera = "default"]
    ELSE w

\* p5.Renderer.prototype.resize(w, h): the renderer takes the new size
RendererResize(w, nw, nh) == [w EXCEPT !.rend.width = nw, !.rend.height = nh]

\* gl.viewport(0, 0, gl.drawingBufferWidth, gl.drawingBufferHeight)
glViewport(w) == GlLog(w, "viewport", Null, <<>>)

\* this._curCamera = null; this._setDefaultCamera()
DefaultCameraAgain(w) == _setDefaultCamera([w EXCEPT !.rend._curCamera = "null"])

\* resize that recomputes the projection whatever the camera is
resize_Always(w, nw, nh) ==
  DefaultCameraAgain(glViewport(RendererResize(w, nw, nh)))

\* the test of this._curCamera in resize
ResizeCamera(w) ==
  IF w.rend._curCamera = "default" THEN DefaultCameraAgain(w) ELSE w

resize(w, nw, nh) == ResizeCamera(glViewport(RendererResize(w, nw, nh)))

\* the arguments of perspective after the defaults: 0 and a missing
\* argument both give the default
PerspectiveNear(w, fovy, near) ==
  Or(near, (w.rend.height * Cot(Or(fovy, 60))) \div 20000)
PerspectiveFar(w, fovy, far) ==
  Or(far, (w.rend.height * Cot(Or(fovy, 60))) \div 200)

perspective(w, fovy, aspect, near, far) ==
  [w EXCEPT
     !.rend.uPMatrix =
        MatPerspective(IdentityP, Or(fovy, 60),
                       IF IsFalsy(aspect) THEN w.rend.width ELSE aspect.v[1],
                       IF IsFalsy(aspect) THEN w.rend.height ELSE aspect.v[2],
                       PerspectiveNear(w, fovy, near), PerspectiveFar(w, fovy, far)),
     !.rend._curCamera = "custom"]

\* ortho that leaves a camera the sketch has set
ortho_FirstWins(w, left, right, bottom, top, near, far) ==
  IF w.rend._curCamera = "custom" THEN w
  ELSE [w EXCEPT
     !.rend.uPMatrix =
        MatOrtho(IdentityP,
                 Or(left, (-w.rend.width) \div 2), Or(right, w.rend.width \div 2),
                 Or(bottom, (-w.rend.height) \div 2), Or(top, w.rend.height \div 2),
                 Or(near, 0), Or(far, Max(w.rend.width, w.rend.height))),
     !.rend._curCamera = "custom"]

ortho(w, left, right, bottom, top, near, far) ==
  [w EXCEPT
     !.rend.uPMatrix =
        MatOrtho(IdentityP,
                 Or(left, (-w.rend.width) \div 2), Or(right, w.rend.width \div 2),
                 Or(bottom, (-w.rend.height) \div 2), Or(top, w.rend.height \div 2),
                 Or(near, 0), Or(far, Max(w.rend.width, w.rend.height))),
     !.rend._curCamera = "custom"]

-----------------------------------------------------------------------------
(* camera(): the look-at matrix.  The three components of a vector camera()  *)
(* computes share one irrational factor, so a vector is held exactly as      *)
(* integers v and a ratio q = <<n, d>>: it stands for v * sqrt(n / d).  A    *)
(* division by a zero length leaves d = 0.  In the matrix camera() builds,   *)
(* the entries of a row share the factor of the basis vector of that row;    *)
(* the heap holds the integers and viewScale the three factors.              *)

RECURSIVE GCD(_, _)
GCD(a, b) == IF b = 0 THEN a ELSE GCD(b, a % b)

\* n / d in lowest terms; <<1, 0>> is the outcome of a division by zero
Ratio(n, d) ==
  IF d = 0 THEN <<1, 0>>
  ELSE IF n = 0 THEN <<0, 1>>
  ELSE <<n \div GCD(n, d), d \div GCD(n, d)>>

UnitScale == <<1, 1>>

Vec(v, q) == [v |-> v, q |-> q]

\* a0 * a0 + a1 * a1 + a2 * a2 of the integers
Sq(v) == v[1] * v[1] + v[2] * v[2] + v[3] * v[3]

\* the square of Math.sqrt(a0 * a0 + a1 * a1 + a2 * a2), as a ratio
Mag2(a) == Ratio(Sq(a.v) * a.q[1], a.q[2])

\* a0 /= mag; a1 /= mag; a2 /= mag
DivideBy(a, m2) == Vec(a.v, Ratio(a.q[1] * m2[2], a.q[2] * m2[1]))

\* the division without the test of the length
Normalized_Unguarded(a) == DivideBy(a, Mag2(a))

\* if (mag !== 0) { a0 /= mag; a1 /= mag; a2 /= mag; }
Normalized(a) == IF Mag2(a)[1] # 0 THEN DivideBy(a, Mag2(a)) ELSE a

\* the cross product with the sign of its middle component lost
Cross_Sign(a, b) ==
  Vec(<< a.v[2] * b.v[3] - a.v[3] * b.v[2],
         a.v[1] * b.v[3] + a.v[3] * b.v[1],
         a.v[1] * b.v[2] - a.v[2] * b.v[1] >>,
      Ratio(a.q[1] * b.q[1], a.q[2] * b.q[2]))

\* a1 * b2 - a2 * b1, -a0 * b2 + a2 * b0, a0 * b1 - a1 * b0
Cross(a, b) ==
  Vec(<< a.v[2] * b.v[3] - a.v[3] * b.v[2],
         -a.v[1] * b.v[3] + a.v[3] * b.v[1],
         a.v[1] * b.v[2] - a.v[2] * b.v[1] >>,
      Ratio(a.q[1] * b.q[1], a.q[2] * b.q[2]))

\* the default eye of renderer.cam: on the axis of the default camera
DefaultEye == <<0, 0, CameraZ(Height)>>

\* eye, center and up of a call: the nine arguments, or the defaults
EyeOf(w, args) ==
  IF Len(args) = 0 THEN w.rend.cam.def ELSE SubSeq(args, 1, 3)

CenterOf(w, args) ==
  IF Len(args) = 0 THEN <<w.rend.cam.def[1], w.rend.cam.def[2], 0>>
  ELSE SubSeq(args, 4, 6)

UpOf(args) == IF Len(args) = 0 THEN <<0, 1, 0>> ELSE SubSeq(args, 7, 9)

Minus(a, b) == <<a[1] - b[1], a[2] - b[2], a[3] - b[3]>>

\* the camera Z vector: eye - center, divided by eyeDist unless that is 0
CamZ(eye, center) == Normalized(Vec(Minus(eye, center), UnitScale))

\* x as y cross z, before it is normalized
CamXRaw(up, z) == Cross(Vec(up, UnitScale), z)

\* y recomputed as z cross x from the x not yet normalized, then normalized
CamY(z, xraw) == Normalized(Cross(z, xraw))

\* this._renderer.cam.x = eyeX; ...; cam.eyeDist = Math.sqrt(...), kept
\* as its square
SetCam(w, eye, center) ==
  [w EXCEPT !.rend.cam.eye = eye, !.rend.cam.eyeDist2 = Sq(Minus(eye, center))]

\* uMVMatrix.set(x0, y0, z0, 0, x1, y1, z1, 0, x2, y2, z2, 0, 0, 0, 0, 1)
ViewSet(w, x, y, z) ==
  [w EXCEPT !.heap[w.rend.uMVMatrix] =
              << x.v[1], y.v[1], z.v[1], 0,
                 x.v[2], y.v[2], z.v[2], 0,
                 x.v[3], y.v[3], z.v[3], 0,
                 0, 0, 0, 1 >>,
            !.rend.viewScale = <<x.q, y.q, z.q>>]

\* uMVMatrix.translate([-eyeX, -eyeY, -eyeZ]); cameraMatrix.set(uMVMatrix)
ViewFrom(w, eye) ==
  [w EXCEPT !.heap[w.rend.uMVMatrix] = MatTranslate(@, Minus(<<0, 0, 0>>, eye)),
            !.rend.cameraMatrix = MatTranslate(w.heap[w.rend.uMVMatrix],
                                               Minus(<<0, 0, 0>>, eye))]

\* camera() from the Z vector on
LookAt(w, eye, up, z) ==
  ViewFrom(ViewSet(w, Normalized(CamXRaw(up, z)), CamY(z, CamXRaw(up, z)), z),
           eye)

camera(w, args) ==
  LookAt(SetCam(w, EyeOf(w, args), CenterOf(w, args)),
         EyeOf(w, args), UpOf(args),
         CamZ(EyeOf(w, args), CenterOf(w, args)))

-----------------------------------------------------------------------------
(* The state after createCanvas(Width, Height, WEBGL) *)

\* the default fill and stroke colour [0.5, 0.5, 0.5, 1.0]
DefaultColor == <<255, 255, 255, One>>

NoHash == [k \in {} |-> Undefined]

\* the context creation flags of this.attributes
AttributeKeys ==
  {"alpha", "depth", "stencil", "antialias", "premultipliedAlpha",
   "preserveDrawingBuffer"}

\* the flags written as attr.k || true; the others are attr.k || false
OnByDefault == {"alpha", "depth", "stencil"}

\* attr = attr || {}
NoAttributes == [k \in {} |-> FALSE]

\* this.attributes of a renderer constructed with attr
Attributes(attr) ==
  [k \in AttributeKeys |->
     IF k \in OnByDefault THEN TRUE ELSE k \in DOMAIN attr /\ attr[k]]

InitRend ==
  [ uMVMatrix |-> 1,
    ambientLightCount |-> 0, directionalLightCount |-> 0, pointLightCount |-> 0,
    mHash |-> NoHash, curShader |-> Null, curShaderId |-> UndefinedId,
    newShader |-> FALSE, drawMode |-> "undefined", isImmediateDrawing |-> FALSE,
    curFillColor |-> DefaultColor, curStrokeColor |-> DefaultColor,
    uPMatrix |-> IdentityP, _curCamera |-> "null",
    attributes |-> Attributes(NoAttributes),
    cam |-> [def |-> DefaultEye, eye |-> <<0, 0, 0>>, eyeDist2 |-> 0],
    viewScale |-> <<UnitScale, UnitScale, UnitScale>>, cameraMatrix |-> Identity,
    width |-> Width, height |-> Height ]

InitGl ==
  [ blend |-> FALSE, depthMask |-> TRUE, blendFunc |-> "ONE",
    program |-> Null, uniforms |-> [p \in {} |-> <<>>],
    inits |-> [pr \in ShaderPairs |-> 0],
    activeTexture |-> 0, boundTexture |-> [u \in {0} |-> 0],
    log |-> <<>> ]

-----------------------------------------------------------------------------
(* Context attributes: setAttributes and _resetContext.  The sketch has one  *)
(* renderer, so _pInst._renderer is rend and its drawing context is gl.      *)

\* canvas.getContext('webgl', attributes) gives a context, or null from both
\* names
ContextOutcomes == {"ok", "null"}

\* _initContext on a new canvas: the context made becomes the drawing
\* context; program objects of the old context keep their identity
_initContext(w, oc) ==
  IF oc = "null" THEN Throw(w)
  ELSE glViewport(
         GlLog(GlLog([w EXCEPT !.gl = [InitGl EXCEPT !.inits = w.gl.inits]],
                     "enable", Null, <<"DEPTH_TEST">>),
               "depthFunc", Null, <<"LEQUAL">>))

\* the fields the constructor assigns around _initContext
ConstructorFields(w, attr) ==
  SetIdentity([w EXCEPT !.rend = [InitRend EXCEPT
                                    !.attributes = Attributes(attr),
                                    !.uMVMatrix = w.rend.uMVMatrix]])

\* new p5.RendererGL(canvas, pInst, true, attr), assigned to the sketch
\* when the constructor returns
RendererGL(w, attr, oc) ==
  IF _initContext(w, oc).thrown THEN _initContext(w, oc)
  ELSE ConstructorFields(_initContext(w, oc), attr)

\* p5.Renderer.prototype._applyDefaults
_applyDefaults(w) == w

\* _resetContext that hands the shader cache on to the new renderer
_resetContext_KeepCache(w, oc) ==
  IF RendererGL(w, w.rend.attributes, oc).thrown
    THEN RendererGL(w, w.rend.attributes, oc)
    ELSE [_applyDefaults(resize(RendererGL(w, w.rend.attributes, oc),
                                w.rend.width, w.rend.height))
            EXCEPT !.rend.mHash = w.rend.mHash]

\* _resetContext(): a new canvas, a new renderer with the attributes of
\* this one, resized to the size of this one
_resetContext(w, oc) ==
  IF RendererGL(w, w.rend.attributes, oc).thrown
    THEN RendererGL(w, w.rend.attributes, oc)
    ELSE _applyDefaults(resize(RendererGL(w, w.rend.attributes, oc),
                               w.rend.width, w.rend.height))

\* a two-argument form that sets the flag named and keeps the others
SetOneAttribute_Keep(w, key, value) ==
  [w EXCEPT !.rend.attributes = [@ EXCEPT ![key] = value]]

\* arguments.length === 2: the flag named is set, the others get their
\* defaults
SetOneAttribute(w, key, value) ==
  [w EXCEPT !.rend.attributes =
     [k \in AttributeKeys |-> IF k = key THEN value ELSE k \in OnByDefault]]

\* arguments.length === 1: the own flags of the object are set
SetOwnAttributes(w, object) ==
  [w EXCEPT !.rend.attributes =
     [k \in AttributeKeys |-> IF k \in DOMAIN object THEN object[k] ELSE @[k]]]

\* setAttributes on a WebGL sketch (isP3D is true)
setAttributes(w, a, oc) ==
  IF a.len = 2 THEN _resetContext(SetOneAttribute(w, a.key, a.value), oc)
  ELSE IF a.len = 1 THEN _resetContext(SetOwnAttributes(w, a.object), oc)
  ELSE GlLog(w, "console.log", Null, <<"setAttributes">>)

\* p5.prototype.setAttributes without the test of isP3D
setAttributesOn_Any(w, isP3D, a, oc) == setAttributes(w, a, oc)

\* p5.prototype.setAttributes on a sketch whose renderer is a WebGL one
\* (isP3D) or not
setAttributesOn(w, isP3D, a, oc) ==
  IF ~isP3D THEN GlLog(w, "console.log", Null, <<"only works in WebGL">>)
  ELSE setAttributes(w, a, oc)

\* what the calls made so far amount to: the last call and its outcome, and
\* the counts and copies the properties compare the program's state with
InitHist ==
  [ op |-> "new", thrown |-> FALSE,
    prog |-> Null, pair |-> <<"", "">>, name |-> <<>>, data |-> ArrVal(<<>>),
    color |-> <<>>, arg |-> "", cam |-> <<>>, prev |-> "",
    depth |-> 0, saved |-> <<>>, restored |-> <<>>, bound |-> <<>>,
    lights |-> <<0, 0, 0>>, lightCalls |-> <<0, 0, 0>>, entries |-> <<0, 0, 0>>,
    updated |-> FALSE, frames |-> 0, transforms |-> 0, resets |-> 0,
    dropped |-> [name |-> <<>>, data |-> ArrVal(<<>>), by |-> Null] ]

-----------------------------------------------------------------------------
(* p5.prototype.loadShader.  A call makes a p5.Shader and asks loadStrings   *)
(* for the two files; each file arrives later, in either order, and its      *)
(* callback runs then.  A file is the list of its lines.                     *)

VertFiles == {<<"attribute vec3 aPosition;", "void main() {}">>, <<"void main() {}">>}
FragFiles == {<<"precision mediump float;", "void main() {}">>, <<>>}

\* result.join('\n')
RECURSIVE Join(_)
Join(result) ==
  IF Len(result) = 0 THEN ""
  ELSE IF Len(result) = 1 THEN result[1]
  ELSE result[1] \o "\n" \o Join(Tail(result))

\* new p5.Shader() with var loadedFrag = false, loadedVert = false, and the
\* two files asked for; a source not yet set is <<>>.  done lists the
\* callbacks in the order they ran and incremented those that called
\* _incrementPreload
Loading(vertFile, fragFile) ==
  [ _vertSrc |-> <<>>, _fragSrc |-> <<>>,
    loadedVert |-> FALSE, loadedFrag |-> FALSE,
    vertFile |-> vertFile, fragFile |-> fragFile,
    done |-> <<>>, incremented |-> <<>> ]

\* self._incrementPreload(), called by a callback of shader i
_incrementPreload(l, i, by) ==
  [l EXCEPT !.preloadCount = @ + 1,
            !.shaders[i].incremented = Append(@, by)]

\* a callback of the fragment file that always counts
fragLoaded_Always(l, i) ==
  _incrementPreload(
    [l EXCEPT !.shaders[i]._fragSrc = <<Join(l.shaders[i].fragFile)>>,
              !.shaders[i].loadedFrag = TRUE,
              !.shaders[i].done = Append(@, "frag")],
    i, "frag")

\* the callback of loadStrings(fragFile, ...)
fragLoaded(l, i) ==
  IF ~l.shaders[i].loadedVert
    THEN _incrementPreload(
           [l EXCEPT !.shaders[i]._fragSrc = <<Join(l.shaders[i].fragFile)>>,
                     !.shaders[i].loadedFrag = TRUE,
                     !.shaders[i].done = Append(@, "frag")],
           i, "frag")
    ELSE [l EXCEPT !.shaders[i]._fragSrc = <<Join(l.shaders[i].fragFile)>>,
                   !.shaders[i].loadedFrag = TRUE,
                   !.shaders[i].done = Append(@, "frag")]

\* the callback of loadStrings(vertFile, ...)
vertLoaded(l, i) ==
  IF ~l.shaders[i].loadedFrag
    THEN _incrementPreload(
           [l EXCEPT !.shaders[i]._vertSrc = <<Join(l.shaders[i].vertFile)>>,
                     !.shaders[i].loadedVert = TRUE,
                     !.shaders[i].done = Append(@, "vert")],
           i, "vert")
    ELSE [l EXCEPT !.shaders[i]._vertSrc = <<Join(l.shaders[i].vertFile)>>,
                   !.shaders[i].loadedVert = TRUE,
                   !.shaders[i].done = Append(@, "vert")]

\* loadShader(vertFile, fragFile): the shader returned is the last of the list
loadShader(l, vertFile, fragFile) ==
  [l EXCEPT !.shaders = Append(@, Loading(vertFile, fragFile))]

InitLoader == [shaders |-> <<>>, preloadCount |-> 0]

Init ==
  /\ rend = InitRend
  /\ loader = InitLoader
  /\ gl = InitGl
  /\ heap = [i \in 1..NObj |-> IF i = 1 THEN Identity ELSE Free]
  /\ uMVMatrixStack = <<>>
  /\ hist = InitHist

-----------------------------------------------------------------------------
(* Pixels: p5.prototype.get.  The sketch has the size of its renderer.  The  *)
(* drawing context is the 2D context of a canvas, whose getImageData gives   *)
(* transparent black for a pixel outside the canvas, or the WebGL context,   *)
(* which has no getImageData.                                                *)

DrawingContexts == {"2d", "webgl"}

\* what the canvas shows, after background(200)
CanvasPixel(w, x, y) ==
  IF x >= 0 /\ y >= 0 /\ x < w.rend.width /\ y < w.rend.height
    THEN <<200, 200, 200, 255>>
    ELSE <<0, 0, 0, 0>>

\* a p5.Image of a size
ImageVal(dw, dh) == [t |-> "image", v |-> <<dw, dh>>]

Min(a, b) == IF a <= b THEN a ELSE b

\* this.drawingContext.getImageData(x, y, 1, 1) and the copy of its data
GetPixel(w, x, y, ctx) ==
  IF ctx = "webgl" THEN Throw(w)
  ELSE Return(GlLog(w, "getImageData", Null, <<>>), ArrVal(CanvasPixel(w, x, y)))

\* new p5.Image(dw, dh) with the region drawn into it
GetRegion(w, dw, dh) ==
  Return(GlLog(w, "drawImage", Null, <<>>), ImageVal(dw, dh))

\* get from the test of x and y on, with the defaults of w and h filled in
GetFrom(w, x, y, gw, gh, ctx) ==
  IF x > w.rend.width \/ y > w.rend.height \/ x < 0 \/ y < 0
    THEN Return(w, ArrVal(<<0, 0, 0, 255>>))
  ELSE IF gw = 1 /\ gh = 1 THEN GetPixel(w, x, y, ctx)
  ELSE GetRegion(w, Min(gw, w.rend.width), Min(gh, w.rend.height))

\* get(), get(x, y) and get(x, y, w, h)
get(w, args, ctx) ==
  IF Len(args) = 0 THEN GetFrom(w, 0, 0, w.rend.width, w.rend.height, ctx)
  ELSE IF Len(args) = 2 THEN GetFrom(w, args[1], args[2], 1, 1, ctx)
  ELSE GetFrom(w, args[1], args[2], args[3], args[4], ctx)

-----------------------------------------------------------------------------
(* Pixels: p5.prototype.copy.  An argument is a number, a p5.Image or        *)
(* undefined; the sketch itself stands for this.  drawImage exists on the    *)
(* 2D context only.                                                          *)

\* this, seen as a source: its width and height
SketchVal(w) == [t |-> "sketch", v |-> <<w.rend.width, w.rend.height>>]

\* var s = srcImage.canvas.width / srcImage.width and drawImage(...) on
\* this.drawingContext; a source without a canvas gives a TypeError, and so
\* does a context without drawImage
DrawFrom(w, srcImage, ctx) ==
  IF srcImage.t \notin {"image", "sketch"} THEN Throw(w)
  ELSE IF ctx = "webgl" THEN Throw(w)
  ELSE GlLog(w, "drawImage", Null, <<srcImage.t>>)

\* a copy that draws from the sketch whatever the count of arguments
copy_Always(w, args, ctx) == DrawFrom(w, SketchVal(w), ctx)

\* copy(srcImage, sx, sy, sw, sh, dx, dy, dw, dh) and copy(sx, ..., dh)
copy(w, args, ctx) ==
  IF Len(args) = 9 THEN DrawFrom(w, args[1], ctx)
  ELSE IF Len(args) = 8 THEN DrawFrom(w, SketchVal(w), ctx)
  ELSE Throw(w)

-----------------------------------------------------------------------------
(* One call of the sketch *)

\* the world a call starts in
Begin == [World EXCEPT !.gl.log = <<>>]

\* the world a call leaves
Commit(w, h) ==
  LET refs == Refs(w.rend, w.stack) IN
  /\ rend' = [w.rend EXCEPT !.uMVMatrix = Rank(refs, @)]
  /\ gl' = w.gl
  /\ uMVMatrixStack' = [i \in DOMAIN w.stack |-> Rank(refs, w.stack[i])]
  /\ heap' = Collect(w.heap, w.rend, w.stack)
  /\ loader' = loader
  /\ hist' = h

Note(op, w) ==
  [hist EXCEPT !.op = op, !.thrown = w.thrown, !.prog = Null,
               !.pair = <<"", "">>, !.name = <<>>, !.data = ArrVal(<<>>),
               !.color = <<>>, !.arg = "", !.cam = <<>>, !.prev = "",
               !.restored = <<>>]

Transformed(op, w) == [Note(op, w) EXCEPT !.transforms = @ + 1]

TranslateArgs == {<<1, 2, 3>>}
ScaleArgs == {<<2, 3, 4>>}
Turns == {1}
Axes == {<<0, 0, -1>>}

Call_translate ==
  /\ hist.transforms < MaxTransforms
  /\ \E v \in TranslateArgs :
       LET w == translate(Begin, v[1], v[2], v[3]) IN Commit(w, Transformed("translate", w))

Call_scale ==
  /\ hist.transforms < MaxTransforms
  /\ \E v \in ScaleArgs :
       LET w == scale(Begin, v[1], v[2], v[3]) IN Commit(w, Transformed("scale", w))

Call_rotate ==
  /\ hist.transforms < MaxTransforms
  /\ \E q \in Turns, axis \in Axes :
       LET w == rotate(Begin, q, axis) IN Commit(w, Transformed("rotate", w))

Call_rotateX ==
  /\ hist.transforms < MaxTransforms
  /\ \E q \in Turns :
       LET w == rotateX(Begin, q) IN Commit(w, Transformed("rotateX", w))

Call_rotateY ==
  /\ hist.transforms < MaxTransforms
  /\ \E q \in Turns :
       LET w == rotateY(Begin, q) IN Commit(w, Transformed("rotateY", w))

Call_rotateZ ==
  /\ hist.transforms < MaxTransforms
  /\ \E q \in Turns :
       LET w == rotateZ(Begin, q) IN Commit(w, Transformed("rotateZ", w))

Call_push ==
  /\ Len(uMVMatrixStack) < MaxDepth
  /\ LET w == push(Begin) IN
     Commit(w, [Note("push", w) EXCEPT
                  !.depth = @ + 1,
                  !.saved = Append(@, heap[rend.uMVMatrix]),
                  !.bound = Append(@, gl.boundTexture[0])])

Call_pop ==
  LET w == pop(Begin)
      n == Len(hist.saved)
  IN Commit(w, IF w.thrown THEN Note("pop", w)
               ELSE [Note("pop", w) EXCEPT
                       !.depth = @ - 1,
                       !.restored = IF n > 0 THEN hist.saved[n] ELSE <<>>,
                       !.saved = IF n > 0 THEN SubSeq(@, 1, n - 1) ELSE @,
                       !.bound = IF n > 0 THEN SubSeq(@, 1, n - 1) ELSE @])

Call_update ==
  /\ hist.frames < MaxFrames
  /\ LET w == _update(Begin) IN
     Commit(w, [Note("_update", w) EXCEPT
                  !.frames = @ + 1, !.updated = TRUE, !.lights = <<0, 0, 0>>,
                  !.entries = <<0, 0, 0>>])

Call_resetMatrix ==
  /\ hist.transforms < MaxTransforms
  /\ LET w == resetMatrix(Begin) IN Commit(w, Transformed("resetMatrix", w))

\* the transform calls and the matrix stack
NextStack ==
  \/ Call_translate
  \/ Call_scale
  \/ Call_rotate
  \/ Call_rotateX
  \/ Call_rotateY
  \/ Call_rotateZ
  \/ Call_push
  \/ Call_pop
  \/ Call_update
  \/ Call_resetMatrix

SpecStack == Init /\ [][NextStack]_vars

-----------------------------------------------------------------------------
(* Shader, colour, material and light calls *)

\* the colours of the fill and material calls: fill(255, 0, 0, 128) and
\* fill(255, 0, 0, 255)
ColorArgs == {<<255, 0, 0, 128>>, <<255, 0, 0, 255>>}
StrokeArgs == {<<0>>}
AmbientArgs == {<<100, 100, 100>>}

\* directionalLight(200, 200, 200, 1, 0, 0), with a vector, and with a
\* direction that is undefined
DirectionalArgs ==
  { <<ArgNum(200), ArgNum(200), ArgNum(200), ArgNum(1), ArgNum(0), ArgNum(0)>>,
    <<ArgNum(200), ArgNum(200), ArgNum(200), ArgVec(1, 0, 0)>>,
    <<ArgNum(200), ArgNum(200), ArgNum(200), ArgUndef>>,
    <<ArgNum(200), ArgNum(200), ArgNum(200), ArgObj>> }

\* pointLight(50, 50, 50, 0, 0, 5) and with a position that is undefined
PointArgs ==
  { <<ArgNum(50), ArgNum(50), ArgNum(50), ArgNum(0), ArgNum(0), ArgNum(5)>>,
    <<ArgNum(50), ArgNum(50), ArgNum(50), ArgUndef>>,
    <<ArgNum(50), ArgNum(50), ArgNum(50), ArgObj>> }

\* the uniform writes a sketch or the library may ask for
UniformInputs ==
  { <<<<"uMaterialColor">>, ArrVal(<<0, One, 0, One>>)>>,
    <<<<"uSpecular">>, BoolVal(TRUE)>>,
    <<<<"uAmbientColor", "[0]">>, ArrVal(<<One, One, One>>)>>,
    <<<<"uNoSuchUniform">>, NumVal(1)>> }

\* the current shader declares the uniform
Declares(p, name) == name \in DOMAIN uniformsOf(p)

Call_getShader ==
  \E pair \in ShaderPairs, oc \in CompileOutcomes :
    LET w == _getShader(Begin, pair[1], pair[2], oc) IN
    Commit(w, [Note("_getShader", w) EXCEPT !.pair = pair, !.prog = w.ret])

Call_useShader ==
  \E p \in Range(rend.mHash) \cup {Null, Undefined} :
    LET w == _useShader(Begin, p) IN
    Commit(w, [Note("_useShader", w) EXCEPT !.prog = p])

Call_setUniform ==
  \E in \in UniformInputs :
    LET w == _setUniform(Begin, in[1], in[2]) IN
    Commit(w, [Note("_setUniform", w) EXCEPT
                 !.name = in[1], !.data = in[2],
                 !.dropped = IF ~Declares(rend.curShader, in[1])
                               THEN [name |-> in[1], data |-> in[2], by |-> rend.curShader]
                               ELSE @])

Call_fill ==
  \E args \in ColorArgs, oc \in CompileOutcomes :
    LET w == fill(Begin, args, oc) IN
    Commit(w, [Note("fill", w) EXCEPT !.color = ResolveColor(args)])

Call_noFill ==
  \E oc \in CompileOutcomes :
    LET w == noFill(Begin, oc) IN Commit(w, Note("noFill", w))

Call_stroke ==
  \E args \in StrokeArgs :
    LET w == stroke(Begin, args) IN
    Commit(w, [Note("stroke", w) EXCEPT !.color = ResolveColor(args)])

Call_beginShape ==
  LET w == beginShape(Begin) IN Commit(w, Note("beginShape", w))

Call_endShape ==
  LET w == endShape(Begin) IN Commit(w, Note("endShape", w))

Call_ambientMaterial ==
  \E args \in ColorArgs, oc \in CompileOutcomes :
    LET w == ambientMaterial(Begin, args, oc) IN
    Commit(w, [Note("ambientMaterial", w) EXCEPT !.color = ResolveColor(args)])

Call_specularMaterial ==
  \E args \in ColorArgs, oc \in CompileOutcomes :
    LET w == specularMaterial(Begin, args, oc) IN
    Commit(w, [Note("specularMaterial", w) EXCEPT !.color = ResolveColor(args)])

\* the colour arrays of the light shader, by light kind: ambient,
\* directional, point
ColorArrays == << <<"uAmbientColor">>, <<"uDirectionalColor">>, <<"uPointLightColor">> >>

\* the gl.uniform*fv calls of the running call that wrote the array name
ArrayWrites(w, name) ==
  Cardinality({i \in DOMAIN w.gl.log :
                 w.gl.log[i].fn = "uniformfv" /\ w.gl.log[i].name = name})

\* the images a sketch has loaded
TextureArgs == {1, 2}

Call_normalMaterial ==
  \E oc \in CompileOutcomes :
    LET w == normalMaterial(Begin, oc) IN Commit(w, Note("normalMaterial", w))

Call_texture ==
  \E tex \in TextureArgs, oc \in CompileOutcomes :
    LET w == texture(Begin, tex, oc) IN
    Commit(w, [Note("texture", w) EXCEPT !.data = ArrVal(<<tex>>)])

\* a light call of kind k was made; it counts when it returned, and the
\* entries it wrote into the colour array of its kind are counted
Lit(op, w, k) ==
  [Note(op, w) EXCEPT
     !.lightCalls[k] = @ + 1,
     !.lights[k] = IF w.thrown THEN @ ELSE @ + 1,
     !.entries[k] = @ + ArrayWrites(w, ColorArrays[k])]

Call_ambientLight ==
  /\ hist.lightCalls[1] < MaxLights
  /\ \E args \in AmbientArgs, oc \in CompileOutcomes :
       LET w == ambientLight(Begin, args, oc) IN
       Commit(w, [Lit("ambientLight", w, 1) EXCEPT
                    !.color = Take(ResolveColor(args), 3)])

Call_directionalLight ==
  /\ hist.lightCalls[2] < MaxLights
  /\ \E args \in DirectionalArgs, oc \in CompileOutcomes :
       LET w == directionalLight(Begin, args, oc) IN
       Commit(w, [Lit("directionalLight", w, 2) EXCEPT
                    !.color = LightColor(args), !.arg = args[Len(args)].t])

Call_pointLight ==
  /\ hist.lightCalls[3] < MaxLights
  /\ \E args \in PointArgs, oc \in CompileOutcomes :
       LET w == pointLight(Begin, args, oc) IN
       Commit(w, [Lit("pointLight", w, 3) EXCEPT
                    !.color = LightColor(args), !.arg = args[Len(args)].t])

\* the shader cache with the calls that fill it
NextCache ==
  \/ Call_getShader
  \/ Call_noFill
  \/ Call_ambientLight

SpecCache == Init /\ [][NextCache]_vars

\* the uniform layer: programs are made, bound and written
NextUniform ==
  \/ Call_noFill
  \/ Call_ambientLight
  \/ Call_useShader
  \/ Call_setUniform
  \/ Call_stroke

SpecUniform == Init /\ [][NextUniform]_vars

\* colours, materials and the blend state
NextColor ==
  \/ Call_fill
  \/ Call_noFill
  \/ Call_beginShape
  \/ Call_endShape
  \/ Call_ambientMaterial
  \/ Call_specularMaterial

SpecColor == Init /\ [][NextColor]_vars

\* the lights of a frame
NextLight ==
  \/ Call_update
  \/ Call_ambientLight
  \/ Call_directionalLight
  \/ Call_pointLight

SpecLight == Init /\ [][NextLight]_vars

\* the sizes a canvas is given
ResizeArgs == {<<Width, Height>>, <<2 * Width, Height>>, <<Width, 3 * Height>>}

\* an aspect aw / ah
ArgRatio(aw, ah) == [t |-> "num", v |-> <<aw, ah>>]

\* the numbers of a call as its arguments
Given(numbers) == [i \in DOMAIN numbers |-> ArgNum(numbers[i])]

\* perspective(), perspective(PI/2, 2, 10, 500) and perspective(0, 0, 5, 0)
PerspectiveArgs ==
  { <<ArgUndef, ArgUndef, ArgUndef, ArgUndef>>,
    <<ArgNum(90), ArgRatio(2, 1), ArgNum(10), ArgNum(500)>>,
    <<ArgNum(0), ArgNum(0), ArgNum(5), ArgNum(0)>> }

\* ortho(), ortho(-50, 50, -30, 30, 1, 100) and ortho(0, 50, 0, 30, 0, 300)
OrthoArgs ==
  { [i \in 1..6 |-> ArgUndef],
    Given(<<-50, 50, -30, 30, 1, 100>>),
    Given(<<0, 50, 0, 30, 0, 300>>) }

\* a camera call was made after the call noted last
Camera(op, w, args) == [Note(op, w) EXCEPT !.cam = args, !.prev = hist.op]

\* camera(), then eye, center and up: a view along an axis; up not
\* perpendicular to the view; a view along no axis; a longer up; eye equal
\* to center; up parallel to the view; up zero
CameraArgs ==
  { <<>>,
    <<0, 0, 5, 0, 0, 0, 0, 1, 0>>,
    <<0, 3, 4, 0, 0, 0, 0, 1, 0>>,
    <<1, 2, 3, 0, 0, 1, 1, 1, 0>>,
    <<2, 0, 1, 0, 0, 0, 0, 3, 0>>,
    <<1, 2, 3, 1, 2, 3, 0, 1, 0>>,
    <<0, 5, 0, 0, 0, 0, 0, 1, 0>>,
    <<1, 1, 1, 0, 0, 0, 0, 0, 0>> }

Call_camera ==
  \E a \in CameraArgs :
    LET w == camera(Begin, a) IN Commit(w, Camera("camera", w, a))

\* translations along each axis, in both directions
TranslateVectors == {<<1, 2, 3>>, <<0, -5, 0>>, <<-2, 0, 7>>, <<4, 1, -1>>}

\* translate(x, y, z) with the vector noted
Call_translateBy ==
  /\ hist.transforms < MaxTransforms
  /\ \E v \in TranslateVectors :
       LET w == translate(Begin, v[1], v[2], v[3]) IN
       Commit(w, [Transformed("translate", w) EXCEPT !.cam = v])

\* coordinates before, on and past each edge of a canvas of any of the
\* sizes
PixelCoordinates ==
  {-1, 0, Width - 1, Width, Width + 1, 2 * Width, 3 * Height, 3 * Height + 1}

GetArgs ==
  {<<>>} \cup {<<x, y>> : x \in PixelCoordinates, y \in PixelCoordinates}
         \cup {<<0, 0, 10, 4 * Height>>, <<-1, 0, 10, 10>>}

Call_get ==
  \E a \in GetArgs, ctx \in DrawingContexts :
    LET w == get(Begin, a, ctx) IN
    Commit(w, [Camera("get", w, a) EXCEPT
                 !.data = IF w.thrown THEN @ ELSE w.ret])

\* a list of n numbers
Numbers(n) == [i \in 1..n |-> NumVal(i)]

\* no argument, one too few, the two forms, one too many; the nine argument
\* form with an image, with undefined and with a number in front
CopyArgs ==
  { Numbers(0), Numbers(7), Numbers(8), Numbers(9), Numbers(10),
    <<ImageVal(10, 10)>> \o Numbers(8),
    <<[t |-> "undefined", v |-> <<>>]>> \o Numbers(8),
    <<ImageVal(10, 10)>> \o Numbers(7),
    <<ImageVal(10, 10)>> \o Numbers(9) }

Call_copy ==
  \E a \in CopyArgs, ctx \in DrawingContexts :
    LET w == copy(Begin, a, ctx) IN
    Commit(w, [Camera("copy", w, <<Len(a)>>) EXCEPT
                 !.name = IF Len(a) = 0 THEN <<>> ELSE <<a[1].t>>,
                 !.arg = ctx])

\* loadShader called in preload, and the arrival of a file of a shader that
\* is being loaded
Call_loadShader ==
  /\ Len(loader.shaders) < MaxShaders
  /\ \E v \in VertFiles, f \in FragFiles :
       loader' = loadShader(loader, v, f)
  /\ UNCHANGED <<rend, gl, heap, uMVMatrixStack, hist>>

FragArrives ==
  /\ \E i \in DOMAIN loader.shaders :
       /\ ~loader.shaders[i].loadedFrag
       /\ loader' = fragLoaded(loader, i)
  /\ UNCHANGED <<rend, gl, heap, uMVMatrixStack, hist>>

VertArrives ==
  /\ \E i \in DOMAIN loader.shaders :
       /\ ~loader.shaders[i].loadedVert
       /\ loader' = vertLoaded(loader, i)
  /\ UNCHANGED <<rend, gl, heap, uMVMatrixStack, hist>>

NextLoad ==
  \/ Call_loadShader
  \/ FragArrives
  \/ VertArrives

SpecLoad == Init /\ [][NextLoad]_vars

Call_getCurShaderId ==
  \E oc \in CompileOutcomes :
    LET w == _getCurShaderId(Begin, oc) IN
    Commit(w, [Note("_getCurShaderId", w) EXCEPT !.arg = w.rend.curShaderId])

\* the keys drawing hands to _setMatrixUniforms are ids _getCurShaderId has
\* returned: ids of the shader cache
Call_setMatrixUniforms ==
  \E key \in DOMAIN rend.mHash :
    LET w == _setMatrixUniforms(Begin, key) IN
    Commit(w, [Note("_setMatrixUniforms", w) EXCEPT !.arg = key])

\* the calls that choose the current shader
NextShader ==
  \/ Call_fill
  \/ Call_noFill
  \/ Call_stroke
  \/ Call_ambientLight
  \/ Call_getCurShaderId
  \/ Call_setMatrixUniforms

SpecShader == Init /\ [][NextShader]_vars

\* the view set and the transforms made on it
NextView ==
  \/ Call_camera
  \/ Call_translateBy
  \/ Call_scale
  \/ Call_rotateX

SpecView == Init /\ [][NextView]_vars

\* a shape is drawn with no camera set by the sketch
Call_setDefaultCamera ==
  LET w == _setDefaultCamera(Begin) IN Commit(w, Camera("_setDefaultCamera", w, <<>>))

Call_resize ==
  \E a \in ResizeArgs :
    LET w == resize(Begin, a[1], a[2]) IN Commit(w, Camera("resize", w, a))

Call_perspective ==
  \E a \in PerspectiveArgs :
    LET w == perspective(Begin, a[1], a[2], a[3], a[4]) IN
    Commit(w, Camera("perspective", w, a))

Call_ortho ==
  \E a \in OrthoArgs :
    LET w == ortho(Begin, a[1], a[2], a[3], a[4], a[5], a[6]) IN
    Commit(w, Camera("ortho", w, a))

\* setAttributes(), setAttributes('antialias', true),
\* setAttributes('alpha', false), setAttributes({depth: false}),
\* setAttributes({preserveDrawingBuffer: true, version: true}) and
\* setAttributes('alpha', false, 1); key and value name the one flag asked
\* for
AttributeArgs ==
  { [len |-> 0, key |-> "", value |-> FALSE, object |-> NoAttributes],
    [len |-> 2, key |-> "antialias", value |-> TRUE, object |-> NoAttributes],
    [len |-> 2, key |-> "alpha", value |-> FALSE, object |-> NoAttributes],
    [len |-> 1, key |-> "depth", value |-> FALSE, object |-> ("depth" :> FALSE)],
    [len |-> 1, key |-> "", value |-> FALSE,
     object |-> ("preserveDrawingBuffer" :> TRUE @@ "version" :> TRUE)],
    [len |-> 3, key |-> "alpha", value |-> FALSE, object |-> NoAttributes] }

\* the running call made a drawing context
ContextMade(w) == \E i \in DOMAIN w.gl.log : w.gl.log[i].fn = "depthFunc"

\* setAttributes was called with a.len arguments while the shader noted
\* was current; the lights counted and the depth of scopes are those of
\* the renderer in use
Call_setAttributes ==
  /\ hist.resets < MaxResets
  /\ \E a \in AttributeArgs, oc \in ContextOutcomes :
    LET w == setAttributes(Begin, a, oc) IN
    Commit(w, [Camera("setAttributes", w, <<a.len>>) EXCEPT
                 !.resets = @ + 1,
                 !.depth = IF ContextMade(w) THEN 0 ELSE @,
                 !.name = IF a.key = "" THEN <<>> ELSE <<a.key>>,
                 !.data = BoolVal(a.value),
                 !.prog = rend.curShader,
                 !.lights = IF ContextMade(w) THEN <<0, 0, 0>> ELSE @,
                 !.entries = IF ContextMade(w) THEN <<0, 0, 0>> ELSE @])


\* a camera of the sketch, and the calls on the camera and the frame that
\* come after it
NextCustom ==
  \/ Call_perspective
  \/ Call_ortho
  \/ Call_resize
  \/ Call_setDefaultCamera
  \/ Call_update
  \/ Call_camera

SpecCustom == Init /\ [][NextCustom]_vars

\* setAttributes(key, value) for each flag and value; arg and color note the
\* flag and the value of the setAttributes call before
Call_setAttribute ==
  /\ hist.resets < MaxAttributeCalls
  /\ \E key \in AttributeKeys, value \in BOOLEAN, oc \in ContextOutcomes :
       LET w == setAttributesOn(Begin, TRUE,
                                [len |-> 2, key |-> key, value |-> value,
                                 object |-> NoAttributes], oc)
       IN Commit(w, [Camera("setAttributes", w, <<2>>) EXCEPT
                       !.resets = @ + 1,
                       !.name = <<key>>,
                       !.data = BoolVal(value),
                       !.arg = IF hist.name = <<>> THEN "" ELSE hist.name[1],
                       !.color = hist.data.v])

\* setAttributes on a sketch with a 2D renderer
Call_setAttributes2D ==
  \E a \in AttributeArgs, oc \in ContextOutcomes :
    LET w == setAttributesOn(Begin, FALSE, a, oc) IN
    Commit(w, [Camera("setAttributes (2D)", w, <<a.len>>) EXCEPT
                 !.name = IF a.key = "" THEN <<>> ELSE <<a.key>>,
                 !.data = BoolVal(a.value)])

\* the forms of setAttributes, one call after another
NextAttributes ==
  \/ Call_setAttribute
  \/ Call_setAttributes
  \/ Call_setAttributes2D

SpecAttributes == Init /\ [][NextAttributes]_vars

\* the draw mode among the calls of a frame
NextMode ==
  \/ Call_fill
  \/ Call_noFill
  \/ Call_texture
  \/ Call_stroke
  \/ Call_update
  \/ Call_ambientLight

SpecMode == Init /\ [][NextMode]_vars

\* two renderer instances: the one setAttributes replaces and the one it
\* makes, with the scopes opened on each
NextInstances ==
  \/ Call_setAttributes
  \/ Call_push
  \/ Call_pop
  \/ Call_translate

SpecInstances == Init /\ [][NextInstances]_vars

\* a sketch that changes the context attributes after it has drawn
NextReset ==
  \/ Call_setAttributes
  \/ Call_ambientLight
  \/ Call_fill
  \/ Call_setDefaultCamera

SpecReset == Init /\ [][NextReset]_vars

\* pixels read from canvases of several sizes
NextPixels ==
  \/ Call_get
  \/ Call_copy
  \/ Call_resize

SpecPixels == Init /\ [][NextPixels]_vars

\* the camera of a canvas that is resized
NextCamera ==
  \/ Call_setDefaultCamera
  \/ Call_resize
  \/ Call_perspective
  \/ Call_ortho

SpecCamera == Init /\ [][NextCamera]_vars

\* the materials of a lit scene
NextMaterial ==
  \/ Call_ambientLight
  \/ Call_ambientMaterial
  \/ Call_specularMaterial
  \/ Call_normalMaterial
  \/ Call_texture

SpecMaterial == Init /\ [][NextMaterial]_vars

\* scoped drawing: transforms, a light, textures and the default camera
\* around push and pop
NextScope ==
  \/ Call_push
  \/ Call_pop
  \/ Call_translate
  \/ Call_ambientLight
  \/ Call_texture
  \/ Call_setDefaultCamera

SpecScope == Init /\ [][NextScope]_vars

\* the lights set while another program may be current
\* a material colour and the lights set after it
NextTint ==
  \/ Call_ambientMaterial
  \/ Call_specularMaterial
  \/ Call_ambientLight
  \/ Call_directionalLight
  \/ Call_pointLight

SpecTint == Init /\ [][NextTint]_vars

NextLit ==
  \/ Call_ambientLight
  \/ Call_directionalLight
  \/ Call_pointLight
  \/ Call_noFill

SpecLit == Init /\ [][NextLit]_vars

-----------------------------------------------------------------------------
(* Properties of the matrix stack *)

\* the entries of the model-view matrix
MV == heap[rend.uMVMatrix]

\* C1: every matrix saved by a push() that has not been popped yet still has
\* the entries the model-view matrix had at that push(), whatever transform
\* calls followed, and the pop() matching a push() leaves the model-view
\* matrix with the entries it had at that push()
PushPopRestores ==
  /\ Len(hist.saved) = Len(uMVMatrixStack)
  /\ \A i \in DOMAIN uMVMatrixStack : heap[uMVMatrixStack[i]] = hist.saved[i]
  /\ (hist.op = "pop" /\ ~hist.thrown) => MV = hist.restored

\* a nested scope was left: the inner pop() restored a transformed matrix
\* while the outer saved matrix is still on the stack
PushPopRestoresWitness ==
  /\ hist.op = "pop" /\ ~hist.thrown
  /\ Len(uMVMatrixStack) = 1
  /\ hist.transforms = MaxTransforms
  /\ MV = hist.restored
  /\ MV # hist.saved[1]
  /\ MV # Identity

\* the matrices of the stack, from the bottom
StackMatrices == [i \in DOMAIN uMVMatrixStack |-> heap[uMVMatrixStack[i]]]

\* C38: _update() and resetMatrix() leave the matrices of the stack as they
\* were and make the model-view matrix a new one, the identity moved along
\* z (by the camera distance and by -800), and a pop() that finds a matrix
\* on the stack makes the top one the model-view matrix
FrameKeepsStack ==
  [][/\ hist'.op \in {"_update", "resetMatrix"} =>
          /\ StackMatrices' = StackMatrices
          /\ \A i \in DOMAIN uMVMatrixStack' : uMVMatrixStack'[i] # rend'.uMVMatrix
          /\ MV' = MatTranslate(Identity,
                                <<0, 0, IF hist'.op = "_update"
                                          THEN -CameraZ(rend.height) ELSE -800>>)
     /\ (hist'.op = "pop" /\ Len(uMVMatrixStack) > 0) =>
          /\ MV' = StackMatrices[Len(uMVMatrixStack)]
          /\ StackMatrices' = SubSeq(StackMatrices, 1, Len(uMVMatrixStack) - 1)]_vars

\* a frame was started with two matrices left on the stack by the frame
\* before, one of them transformed
FrameKeepsStackWitness ==
  /\ hist.op = "_update"
  /\ Len(uMVMatrixStack) = 2
  /\ StackMatrices[2] # Identity
  /\ StackMatrices[2] # MV
  /\ StackMatrices = hist.saved

\* C2: a pop() made while the stack is empty throws and leaves the
\* model-view matrix and the empty stack as they were
PopEmptyRaises ==
  [][(hist'.op = "pop" /\ Len(uMVMatrixStack) = 0)
       => /\ hist'.thrown
          /\ uMVMatrixStack' = <<>>
          /\ rend'.uMVMatrix = rend.uMVMatrix
          /\ heap' = heap]_vars

\* pop() has thrown on an empty stack with a transformed model-view matrix
PopEmptyRaisesWitness ==
  /\ hist.op = "pop" /\ hist.thrown
  /\ Len(uMVMatrixStack) = 0
  /\ hist.transforms > 0
  /\ MV # Identity

\* C3: the length of the matrix stack is the number of push() calls minus
\* the number of pop() calls that returned, and is never negative
StackDepthIsNesting ==
  /\ Len(uMVMatrixStack) = hist.depth
  /\ hist.depth >= 0

\* a pop() has returned inside a nested scope
StackDepthIsNestingWitness ==
  /\ hist.op = "pop" /\ ~hist.thrown
  /\ hist.depth = MaxDepth - 1
  /\ Len(uMVMatrixStack) = MaxDepth - 1

-----------------------------------------------------------------------------
(* Properties of the shader cache *)

\* the running call raised an alert: a stage of a program failed
Alerted == \E i \in DOMAIN gl.log : gl.log[i].fn = "alert"

\* C4: _initShaders runs at most once for every pair of shader ids, a
\* _getShader call returns the entry mHash holds for its pair, which is the
\* entry it held before when there was one, and no entry of mHash is ever
\* replaced or removed
ShaderCachedOnce ==
  [][/\ \A pr \in ShaderPairs : gl'.inits[pr] <= 1
     /\ \A k \in DOMAIN rend.mHash :
          k \in DOMAIN rend'.mHash /\ rend'.mHash[k] = rend.mHash[k]
     /\ hist'.op = "_getShader" =>
          /\ hist'.prog = HashGet(rend', MId(hist'.pair[1], hist'.pair[2]))
          /\ rend'.curShaderId = MId(hist'.pair[1], hist'.pair[2])
          /\ materialInHash(rend, MId(hist'.pair[1], hist'.pair[2])) =>
               /\ hist'.prog = HashGet(rend, MId(hist'.pair[1], hist'.pair[2]))
               /\ gl'.inits = gl.inits
               /\ gl'.log = <<>>]_vars

\* a _getShader call was answered from the cache with a program that an
\* earlier call had built, while another pair was cached as well
ShaderCachedOnceWitness ==
  /\ hist.op = "_getShader"
  /\ hist.prog.kind = "program"
  /\ gl.log = <<>>
  /\ gl.inits[hist.pair] = 1
  /\ Cardinality(DOMAIN rend.mHash) > 1

\* C5: a _getShader call in which a stage of the program failed throws and
\* leaves no entry for the pair in mHash
CompileFailureSurfaced ==
  (hist.op = "_getShader" /\ Alerted) =>
    /\ hist.thrown
    /\ MId(hist.pair[1], hist.pair[2]) \notin DOMAIN rend.mHash

-----------------------------------------------------------------------------
(* Properties of the uniform layer *)

\* C6: _useShader(p) with p the current shader makes no GL call and changes
\* no field of the renderer; with any other p it makes exactly one GL call,
\* gl.useProgram(p), and sets curShader to p
UseShaderSwitches ==
  [][hist'.op = "_useShader" =>
       IF hist'.prog = rend.curShader
         THEN /\ gl'.log = <<>>
              /\ gl'.program = gl.program
              /\ rend' = rend
         ELSE /\ Len(gl'.log) = 1
              /\ gl'.log[1].fn = "useProgram"
              /\ gl'.log[1].prog = hist'.prog
              /\ rend' = [rend EXCEPT !.curShader = hist'.prog]]_vars

\* _useShader was called with the program that is the current shader and in
\* use, and nothing was sent to the GL
UseShaderSwitchesWitness ==
  /\ hist.op = "_useShader"
  /\ hist.prog.kind = "program"
  /\ hist.prog = rend.curShader
  /\ gl.program = hist.prog
  /\ gl.log = <<>>

\* C7: _setUniform(name, data) with no current shader, or with a current
\* shader whose uniforms have no entry for name, makes no GL call, leaves
\* the context and the renderer as they were and does not throw
SetUniformSilentDrop ==
  [][(/\ hist'.op = "_setUniform"
      /\ \/ Falsy(rend.curShader)
         \/ ~Declares(rend.curShader, hist'.name))
       => /\ gl'.log = <<>>
          /\ gl' = [gl EXCEPT !.log = <<>>]
          /\ rend' = rend
          /\ ~hist'.thrown]_vars

\* _setUniform was called with a name the linked program in use does not
\* declare, and returned without a GL call
SetUniformSilentDropWitness ==
  /\ hist.op = "_setUniform"
  /\ ~hist.thrown
  /\ rend.curShader.kind = "program" /\ rend.curShader.linked
  /\ gl.program = rend.curShader
  /\ ~Declares(rend.curShader, hist.name)
  /\ gl.log = <<>>

\* C8: a _setUniform(name, v) made while the current shader does not declare
\* name changes no uniform of any program, and a _useShader changes no
\* uniform of any program: the program that declares name keeps the value it
\* had, the write is not kept back for it
UniformWriteNotDeferred ==
  [][/\ (hist'.op = "_setUniform" /\ ~Declares(rend.curShader, hist'.name))
          => gl'.uniforms = gl.uniforms
     /\ hist'.op = "_useShader" => gl'.uniforms = gl.uniforms]_vars

\* uSpecular = true was dropped by a current shader that does not declare
\* it, and the program that declares uSpecular was made current later: its
\* uSpecular is still 0
UniformWriteNotDeferredWitness ==
  /\ hist.op = "_useShader"
  /\ hist.dropped.name = <<"uSpecular">>
  /\ hist.dropped.data = BoolVal(TRUE)
  /\ hist.dropped.by.kind = "program" /\ hist.dropped.by.linked
  /\ hist.prog.kind = "program"
  /\ rend.curShader = hist.prog /\ gl.program = hist.prog
  /\ Len(gl.log) = 1
  /\ Declares(hist.prog, <<"uSpecular">>)
  /\ gl.uniforms[hist.prog][<<"uSpecular">>] = <<0>>

-----------------------------------------------------------------------------
(* Properties of colours and lights *)

\* C9: after a fill(), ambientMaterial() or specularMaterial() that
\* returned, blending is enabled and depth writes are disabled when the
\* alpha of the call's colour is below 1, and blending is disabled and depth
\* writes are enabled when it is 1, whatever the blend state was before
BlendFollowsAlpha ==
  (hist.op \in {"fill", "ambientMaterial", "specularMaterial"} /\ ~hist.thrown)
    => /\ gl.blend = (hist.color[4] < One)
       /\ gl.depthMask = ~(hist.color[4] < One)

\* an opaque material was set after blending had been enabled: blending is
\* off and depth writes are on
BlendFollowsAlphaWitness ==
  /\ hist.op = "specularMaterial" /\ ~hist.thrown
  /\ hist.color[4] = One
  /\ gl.blendFunc = "SRC_ALPHA"
  /\ ~gl.blend /\ gl.depthMask

\* the three light counters of the renderer
LightCounts ==
  <<rend.ambientLightCount, rend.directionalLightCount, rend.pointLightCount>>

\* C10: right after _update() the three light counters are 0, and from then
\* on each counter is the number of calls of its light function that
\* returned since the last _update()
LightCountsPerFrame ==
  /\ hist.op = "_update" => LightCounts = <<0, 0, 0>>
  /\ hist.updated => LightCounts = hist.lights

\* one light of each kind was set after _update(), which followed lights of
\* the frame before
LightCountsPerFrameWitness ==
  /\ hist.updated
  /\ LightCounts = <<1, 1, 1>>
  /\ hist.lights = <<1, 1, 1>>
  /\ hist.lightCalls[1] = MaxLights

-----------------------------------------------------------------------------
(* Properties of the light uniforms *)

\* the light program is cached, linked, current and in use
LightReady ==
  /\ materialInHash(rend, LightId)
  /\ rend.mHash[LightId].kind = "program" /\ rend.mHash[LightId].linked
  /\ rend.curShader = rend.mHash[LightId]
  /\ gl.program = rend.mHash[LightId]

\* C11: while the light program is in use, each light counter is the number
\* of entries written into the colour array of its kind since the last
\* _update(), and is at most the length of that array
LightEntriesMatchCounts ==
  LightReady =>
    \A k \in 1..3 :
      /\ LightCounts[k] = hist.entries[k]
      /\ LightCounts[k] <= LightCapacity

\* the light functions, by light kind
LightOps == <<"ambientLight", "directionalLight", "pointLight">>

\* entry k (from 0) of an array of vec3
Slot(arr, k) == SubSeq(arr, 3 * k + 1, 3 * k + 3)

\* C12: a light call that returned while the light program is in use, the
\* k-th of its kind since the last _update() (k from 0), has written its
\* colour into entry k of the colour array of its kind
LightWritesNextSlot ==
  \A kind \in 1..3 :
    (/\ hist.op = LightOps[kind] /\ ~hist.thrown
     /\ LightReady
     /\ LightCounts[kind] <= LightCapacity)
      => Slot(gl.uniforms[rend.curShader][ColorArrays[kind]],
              LightCounts[kind] - 1) = hist.color

\* the count uniforms of the light shader, by light kind
CountUniforms ==
  << <<"uAmbientLightCount">>, <<"uDirectionalLightCount">>, <<"uPointLightCount">> >>

\* the three light counters in the state a step leaves
LightCountsAfter ==
  <<rend'.ambientLightCount, rend'.directionalLightCount, rend'.pointLightCount>>

\* what a returned light call of a kind leaves: the cached light program is
\* the current shader, the counter of the kind is one more and the two
\* others are as before, the count uniform of the kind holds the new count,
\* and uUseLighting is 1
LightCallDone(kind) ==
  /\ rend'.curShader = HashGet(rend', LightId)
  /\ LightCountsAfter = [LightCounts EXCEPT ![kind] = @ + 1]
  /\ rend'.curShader \in DOMAIN gl'.uniforms
  /\ gl'.uniforms[rend'.curShader][CountUniforms[kind]] = <<LightCountsAfter[kind]>>
  /\ gl'.uniforms[rend'.curShader][<<"uUseLighting">>] = <<1>>

LightArgsChecked ==
  (hist.op \in {"directionalLight", "pointLight"} /\ hist.arg \notin {"num", "vec"})
    => hist.thrown

\* the uniforms of the programs there were before the step are as they were
UniformsKept ==
  \A p \in DOMAIN gl.uniforms :
    p \in DOMAIN gl'.uniforms /\ gl'.uniforms[p] = gl.uniforms[p]

\* the gl.uniform* calls
UniformCalls == {"uniform1i", "uniformf", "uniformfv", "uniformMatrixfv"}

\* a directionalLight or pointLight call threw on its last argument
LightArgumentThrew ==
  /\ hist'.op \in {"directionalLight", "pointLight"}
  /\ hist'.arg = "undef" /\ hist'.thrown

\* C33 as stated: a directionalLight or pointLight call that throws on its
\* direction or position leaves the current shader, the uniforms and the
\* three light counters as they were
LightErrorLeavesRenderer ==
  [][LightArgumentThrew =>
       /\ rend'.curShader = rend.curShader
       /\ UniformsKept
       /\ LightCountsAfter = LightCounts]_vars

\* C33: a directionalLight or pointLight call that throws on its direction
\* or position leaves the three light counters and every uniform as they
\* were and writes no uniform, but it has fetched the light program and made
\* what the cache holds for it the current shader
LightErrorKeepsCounts ==
  [][LightArgumentThrew =>
       /\ LightCountsAfter = LightCounts
       /\ UniformsKept
       /\ \A i \in DOMAIN gl'.log : gl'.log[i].fn \notin UniformCalls
       /\ rend'.curShader = HashGet(rend', LightId)]_vars

\* a directional light with an undefined direction threw on a new renderer:
\* the light program was built and is current, and no light is counted
LightErrorKeepsCountsWitness ==
  /\ hist.op = "directionalLight" /\ hist.arg = "undef" /\ hist.thrown
  /\ hist.lightCalls = <<0, 1, 0>>
  /\ LightReady
  /\ LightCounts = <<0, 0, 0>>

-----------------------------------------------------------------------------
(* Properties of materials, camera and scopes *)

\* the material functions
MaterialOps == {"ambientMaterial", "specularMaterial", "normalMaterial", "texture"}

\* C15: ambientMaterial, specularMaterial, normalMaterial and texture leave
\* the three light counters as they were, whether they return or throw
MaterialsKeepLights ==
  [][hist'.op \in MaterialOps => LightCountsAfter = LightCounts]_vars

\* texture() has switched from the normal program to the light program in
\* a scene with lights set
MaterialsKeepLightsWitness ==
  /\ hist.op = "texture" /\ ~hist.thrown
  /\ LightReady
  /\ Len(gl.log) > 0
  /\ \E i \in DOMAIN gl.log : gl.log[i].fn = "useProgram"
  /\ LightCounts = <<MaxLights, 0, 0>>

\* the default perspective of a canvas of a size: 60 degrees, the aspect of
\* the canvas, near and far a tenth of and ten times the camera distance
DefaultProjection(width, height) ==
  MatPerspective(IdentityP, 60, width, height,
                 CameraZ(height) \div 10, CameraZ(height) * 10)

\* C16: resize(w, h) with the camera 'default' leaves the default
\* perspective of the aspect w / h as projection matrix and the camera
\* 'default'; with the camera 'custom' it leaves the projection matrix and
\* the camera as they were
ResizeKeepsCustomCamera ==
  [][hist'.op = "resize" =>
       /\ rend'.width = hist'.cam[1] /\ rend'.height = hist'.cam[2]
       /\ rend._curCamera = "default" =>
            /\ rend'.uPMatrix = DefaultProjection(hist'.cam[1], hist'.cam[2])
            /\ rend'._curCamera = "default"
       /\ rend._curCamera = "custom" =>
            /\ rend'.uPMatrix = rend.uPMatrix
            /\ rend'._curCamera = "custom"]_vars

\* a canvas with a camera of the sketch was given another aspect, and the
\* projection is not the default one of the new size
ResizeKeepsCustomCameraWitness ==
  /\ hist.op = "resize"
  /\ rend._curCamera = "custom"
  /\ hist.prev \in {"perspective", "ortho"}
  /\ rend.width = 2 * Width /\ rend.height = Height
  /\ rend.uPMatrix # DefaultProjection(rend.width, rend.height)
  /\ rend.uPMatrix # IdentityP

\* a new renderer of the size of the canvas, before any camera call
Alone == [Begin EXCEPT !.rend.uPMatrix = IdentityP, !.rend._curCamera = "null"]

\* C17: perspective(p) and ortho(o) each leave the projection matrix they
\* leave when called alone on a new renderer of the same size, whatever the
\* projection matrix and the camera were, and set the camera to 'custom'
ProjectionLastWins ==
  [][/\ hist'.op = "perspective" =>
          /\ rend'.uPMatrix =
               perspective(Alone, hist'.cam[1], hist'.cam[2], hist'.cam[3],
                           hist'.cam[4]).rend.uPMatrix
          /\ rend'._curCamera = "custom"
     /\ hist'.op = "ortho" =>
          /\ rend'.uPMatrix =
               ortho(Alone, hist'.cam[1], hist'.cam[2], hist'.cam[3],
                     hist'.cam[4], hist'.cam[5], hist'.cam[6]).rend.uPMatrix
          /\ rend'._curCamera = "custom"]_vars

\* ortho(-50, 50, -30, 30, 1, 100) was called right after a perspective():
\* the projection matrix is the one of that ortho alone
ProjectionLastWinsWitness ==
  /\ hist.op = "ortho" /\ hist.prev = "perspective"
  /\ hist.cam = Given(<<-50, 50, -30, 30, 1, 100>>)
  /\ rend._curCamera = "custom"
  /\ rend.uPMatrix = MatOrtho(IdentityP, -50, 50, -30, 30, 1, 100)
  /\ rend.uPMatrix[1] = 20 /\ rend.uPMatrix[16] = 1000

\* the renderer and the context without the model-view matrix and the log
\* of the running call
Besides(r, g) == <<[r EXCEPT !.uMVMatrix = 0], [g EXCEPT !.log = <<>>]>>

ScopeRestoresTexture ==
  [][(hist'.op = "pop" /\ ~hist'.thrown /\ hist.bound # <<>>
        /\ hist.bound[Len(hist.bound)] # 0) =>
       /\ gl'.boundTexture[0] = hist.bound[Len(hist.bound)]
       /\ heap'[rend'.uMVMatrix] = hist.saved[Len(hist.saved)]]_vars

\* C20: after a setAttributes call with one or two arguments that returns,
\* the renderer of the sketch is one made by that call on a new context:
\* its shader cache is empty, its current shader is null, its light
\* counters are 0, its camera is the initial null, its fill and stroke
\* colours are the constructor defaults, and the context has no program
\* in use and no uniform of a program of the renderer before
SetAttributesRenews ==
  (hist.op = "setAttributes" /\ ~hist.thrown /\ hist.cam[1] \in {1, 2}) =>
    /\ ContextMade(World)
    /\ rend.mHash = NoHash
    /\ rend.curShader = Null /\ rend.curShaderId = UndefinedId
    /\ LightCounts = <<0, 0, 0>>
    /\ rend._curCamera = "null"
    /\ rend.curFillColor = DefaultColor /\ rend.curStrokeColor = DefaultColor
    /\ gl.program = Null /\ DOMAIN gl.uniforms = {}

\* setAttributes('antialias', true) has replaced a renderer that had a
\* current shader, lights set and the default camera
SetAttributesRenewsWitness ==
  /\ hist.op = "setAttributes" /\ ~hist.thrown /\ hist.cam = <<2>>
  /\ hist.prog.kind = "program" /\ hist.prog.linked
  /\ hist.lightCalls[1] = MaxLights
  /\ hist.prev = "_setDefaultCamera"
  /\ rend.attributes["antialias"]
  /\ rend.mHash = NoHash /\ rend.uPMatrix = IdentityP

\* C21: after setAttributes(k, v) or setAttributes({k: v}) that returns,
\* attributes[k] of the renderer made, which is what its context was asked
\* for, is v
AttributeApplied ==
  (/\ hist.op = "setAttributes" /\ ~hist.thrown
   /\ hist.cam[1] \in {1, 2} /\ hist.name # <<>>) =>
    rend.attributes[hist.name[1]] = (hist.data = BoolVal(TRUE))

\* the calls that assign drawMode, with the mode each assigns
ModeOf == [fill |-> "fill", noFill |-> "wireframe", texture |-> "texture"]

\* C22: a call other than fill, noFill and texture leaves drawMode as it
\* was, across _update() too; fill, noFill and texture that return leave
\* 'fill', 'wireframe' and 'texture'
DrawModePersists ==
  [][/\ hist'.op \notin DOMAIN ModeOf => rend'.drawMode = rend.drawMode
     /\ (hist'.op \in DOMAIN ModeOf /\ ~hist'.thrown) =>
          rend'.drawMode = ModeOf[hist'.op]]_vars

\* a frame has started in the wireframe mode and the mode is still there
DrawModePersistsWitness ==
  /\ hist.op = "_update" /\ hist.updated
  /\ rend.drawMode = "wireframe"
  /\ rend.curShader.kind = "program"

\* the flat-colour program of the cache, undefined before noFill or fill
\* has asked for it
FlatProgram == HashGet(rend, MId("normalVert", "basicFrag"))

\* C23: stroke(c) in the wireframe mode, with the flat-colour program built
\* and linked, leaves that program current with uMaterialColor = c; in
\* another mode it assigns curStrokeColor, binds no shader and writes no
\* uniform
StrokeUsesFlatShader ==
  [][hist'.op = "stroke" =>
       /\ (rend.drawMode = "wireframe" /\ FlatProgram.kind = "program"
              /\ FlatProgram.linked) =>
            /\ rend'.curShader = FlatProgram
            /\ gl'.program = FlatProgram
            /\ gl'.uniforms[FlatProgram][<<"uMaterialColor">>] = hist'.color
       /\ rend.drawMode # "wireframe" =>
            /\ rend' = [rend EXCEPT !.curStrokeColor = hist'.color]
            /\ gl' = [gl EXCEPT !.log = <<>>]]_vars

\* the id fill() asks the cache for
FillId(immediate) ==
  IF immediate THEN MId("immediateVert", "vertexColorFrag")
  ELSE MId("normalVert", "basicFrag")

\* the gl.uniform* calls of the last call on the name
UniformWrites(name) == {i \in DOMAIN gl.log : gl.log[i].name = name}

\* C24: fill(c) that returns leaves drawMode 'fill', curFillColor the
\* resolved colour and, as current shader, what the cache holds for
\* 'immediateVert|vertexColorFrag' when isImmediateDrawing and for
\* 'normalVert|basicFrag' otherwise; uMaterialColor is written in the
\* retained mode (when the program linked) and not in the immediate mode
FillSelectsShader ==
  [][(hist'.op = "fill" /\ ~hist'.thrown) =>
       /\ rend'.drawMode = "fill"
       /\ rend'.curFillColor = hist'.color
       /\ rend'.isImmediateDrawing = rend.isImmediateDrawing
       /\ rend'.curShaderId = FillId(rend.isImmediateDrawing)
       /\ rend'.curShader = HashGet(rend', FillId(rend.isImmediateDrawing))
       /\ (rend'.curShader.kind = "program" /\ rend'.curShader.linked) =>
            gl'.program = rend'.curShader
       /\ rend.isImmediateDrawing => UniformWrites(<<"uMaterialColor">>)' = {}
       /\ (~rend.isImmediateDrawing /\ rend'.curShader.kind = "program"
              /\ rend'.curShader.linked) =>
            /\ UniformWrites(<<"uMaterialColor">>)' # {}
            /\ gl'.uniforms[rend'.curShader][<<"uMaterialColor">>] = hist'.color]_vars

\* fill() between beginShape() and endShape() has switched from the
\* flat-colour program of an earlier fill() to the vertex-colour program
FillSelectsShaderWitness ==
  /\ hist.op = "fill" /\ ~hist.thrown
  /\ rend.isImmediateDrawing
  /\ rend.curShader = Program("immediateVert", "vertexColorFrag", 1, TRUE)
  /\ FlatProgram.kind = "program" /\ FlatProgram.linked
  /\ \E i \in DOMAIN gl.log : gl.log[i].fn = "useProgram"

\* C25: texture(img), whatever the renderer state, returns with drawMode
\* 'texture' and a texture-capable shader current; when that shader linked
\* its isTexture is true, its uSpecular false and img is bound to its
\* sampler
TextureFromAnyState ==
  hist.op = "texture" =>
    /\ ~hist.thrown
    /\ rend.drawMode = "texture"
    /\ isTextureShader(rend.curShader)
    /\ rend.curShader.linked =>
         /\ gl.uniforms[rend.curShader][<<"isTexture">>] = <<1>>
         /\ gl.uniforms[rend.curShader][<<"uSpecular">>] = <<0>>
         /\ gl.boundTexture[0] = hist.data.v[1]

-----------------------------------------------------------------------------
(* Properties of the view matrix *)

\* eye, center and up of the camera call noted
ViewEye == EyeOf(World, hist.cam)
ViewCenter == CenterOf(World, hist.cam)
ViewUp == UpOf(hist.cam)

\* the basis vector in row r of the rotation part of the model-view matrix
BasisRow(r) ==
  Vec(<<heap[rend.uMVMatrix][r], heap[rend.uMVMatrix][r + 4],
        heap[rend.uMVMatrix][r + 8]>>, rend.viewScale[r])

\* the dot product is 0: the factors are positive
Orthogonal(a, b) == a.v[1] * b.v[1] + a.v[2] * b.v[2] + a.v[3] * b.v[3] = 0

UnitLength(a) == Mag2(a) = UnitScale

\* eye # center and up not parallel to eye - center (up # 0 included)
ValidView ==
  /\ ViewEye # ViewCenter
  /\ Sq(Cross(Vec(ViewUp, UnitScale),
              Vec(Minus(ViewEye, ViewCenter), UnitScale)).v) # 0

\* C26: after camera() with eye # center and up not parallel to
\* eye - center, the three basis vectors in the rotation part of the
\* model-view matrix are pairwise orthogonal and of unit length
ViewBasisOrthonormal ==
  (hist.op = "camera" /\ ValidView) =>
    /\ \A r \in 1..3 : UnitLength(BasisRow(r))
    /\ Orthogonal(BasisRow(1), BasisRow(2))
    /\ Orthogonal(BasisRow(1), BasisRow(3))
    /\ Orthogonal(BasisRow(2), BasisRow(3))

\* camera(1, 2, 3, 0, 0, 1, 1, 1, 0): the view is along no axis and up is
\* not perpendicular to it; the entries of the basis are irrational
ViewBasisOrthonormalWitness ==
  /\ hist.op = "camera" /\ ValidView
  /\ hist.cam = <<1, 2, 3, 0, 0, 1, 1, 1, 0>>
  /\ \A r \in 1..3 : rend.viewScale[r] # UnitScale
  /\ ~Orthogonal(Vec(ViewUp, UnitScale), BasisRow(3))

\* C27: camera() divides by no zero length: no factor of the basis is the
\* outcome of a division by zero, each basis vector is of unit length or
\* is the zero vector left as computed, and with eye = center the forward
\* vector is that zero vector
ViewNoZeroDivision ==
  hist.op = "camera" =>
    /\ \A r \in 1..3 :
         /\ rend.viewScale[r][2] # 0
         /\ UnitLength(BasisRow(r)) \/ Sq(BasisRow(r).v) = 0
    /\ ViewEye = ViewCenter => BasisRow(3) = Vec(<<0, 0, 0>>, UnitScale)

\* camera(1, 2, 3, 1, 2, 3, 0, 1, 0): eye equals center, and the three
\* lengths are zero
ViewNoZeroDivisionWitness ==
  /\ hist.op = "camera" /\ ViewEye = ViewCenter
  /\ rend.cam.eyeDist2 = 0
  /\ \A r \in 1..3 : Sq(BasisRow(r).v) = 0
  /\ heap[rend.uMVMatrix][16] = 1

\* C28: translate(x, y, z) leaves as model-view matrix the matrix before
\* translated by (x, -y, z), and changes nothing else of the renderer
TranslateFlipsY ==
  [][(hist'.op = "translate" /\ hist'.cam # <<>>) =>
       /\ heap'[rend'.uMVMatrix] =
            MatTranslate(heap[rend.uMVMatrix],
                         <<hist'.cam[1], -hist'.cam[2], hist'.cam[3]>>)
       /\ Besides(rend', gl') = Besides(rend, gl)]_vars

\* translate(0, -5, 0) was made on a scaled matrix: the matrix has moved
\* up its own y axis
TranslateFlipsYWitness ==
  /\ hist.op = "translate" /\ hist.cam = <<0, -5, 0>>
  /\ heap[rend.uMVMatrix][6] = 3
  /\ heap[rend.uMVMatrix][14] = 15
  /\ heap[rend.uMVMatrix][13] = 0 /\ heap[rend.uMVMatrix][15] = 0

\* C29: pop() on a renderer with no unmatched push() of its own throws,
\* whatever was pushed on another renderer instance, and the stack a
\* renderer pops from is as deep as its own unmatched push() calls
StackPerInstance ==
  [][/\ (hist'.op = "pop" /\ hist.depth = 0) => hist'.thrown
     /\ hist'.op \in {"push", "pop", "setAttributes"} =>
          Len(uMVMatrixStack') = hist'.depth]_vars

-----------------------------------------------------------------------------
(* Properties of the pixels *)

\* C30: get(x, y) with x < 0, y < 0, x >= width or y >= height returns
\* [0, 0, 0, 255], throws nothing and does not read the drawing context
GetOutsideIsSentinel ==
  (/\ hist.op = "get" /\ Len(hist.cam) = 2
   /\ \/ hist.cam[1] < 0 \/ hist.cam[2] < 0
      \/ hist.cam[1] >= rend.width \/ hist.cam[2] >= rend.height) =>
    /\ ~hist.thrown
    /\ hist.data = ArrVal(<<0, 0, 0, 255>>)
    /\ gl.log = <<>>

\* C31: copy() with a count of arguments other than 8 or 9 throws and calls
\* nothing on the drawing context; a copy that draws takes its source from
\* the first of 9 arguments and from the sketch itself when there are 8
CopyArity ==
  hist.op = "copy" =>
    /\ hist.cam[1] \notin {8, 9} => hist.thrown /\ gl.log = <<>>
    /\ ~hist.thrown =>
         /\ Len(gl.log) = 1
         /\ gl.log[1].fn = "drawImage"
         /\ gl.log[1].name =
              IF hist.cam[1] = 9 THEN hist.name ELSE <<"sketch">>

\* a copy with ten arguments, refused
CopyArityWitness ==
  /\ hist.op = "copy" /\ hist.cam = <<10>> /\ hist.thrown /\ gl.log = <<>>

-----------------------------------------------------------------------------
(* Properties of a camera the sketch has set *)

\* C32: once perspective() or ortho() has made the camera 'custom', every
\* call other than perspective and ortho (resize, _setDefaultCamera, _update,
\* camera, push, pop, fill, a material, a light) leaves the camera 'custom'
\* and the projection matrix as it was
CustomCameraStays ==
  [][(rend._curCamera = "custom" /\ hist'.op \notin {"perspective", "ortho"}) =>
       /\ rend'._curCamera = "custom"
       /\ rend'.uPMatrix = rend.uPMatrix]_vars

\* a custom projection that is not the default one for the size, after a
\* resize or a _setDefaultCamera
CustomCameraStaysWitness ==
  /\ rend._curCamera = "custom"
  /\ hist.op \in {"resize", "_setDefaultCamera"}
  /\ hist.prev \in {"perspective", "ortho"}
  /\ rend.uPMatrix # _setDefaultCamera_Unguarded(World).rend.uPMatrix

-----------------------------------------------------------------------------
(* Properties of loadShader *)

\* C34: for every shader being loaded, _incrementPreload has been called
\* once by the callback that ran first and not at all before a callback ran,
\* whichever file arrived first; once both callbacks have run the shader
\* holds both sources, each the lines of its file joined by newlines
PreloadCountedOnce ==
  /\ \A i \in DOMAIN loader.shaders :
       LET sh == loader.shaders[i] IN
       /\ sh.incremented = IF sh.done = <<>> THEN <<>> ELSE <<sh.done[1]>>
       /\ Len(sh.done) = 2 =>
            /\ sh._vertSrc = <<Join(sh.vertFile)>>
            /\ sh._fragSrc = <<Join(sh.fragFile)>>
  /\ loader.preloadCount =
       Cardinality({i \in DOMAIN loader.shaders : loader.shaders[i].done # <<>>})

\* two shaders loaded, one with the vertex file first and one with the
\* fragment file first
PreloadCountedOnceWitness ==
  /\ Len(loader.shaders) = 2
  /\ loader.shaders[1].done = <<"vert", "frag">>
  /\ loader.shaders[2].done = <<"frag", "vert">>
  /\ loader.preloadCount = 2
  /\ loader.shaders[1]._vertSrc = <<"attribute vec3 aPosition;\nvoid main() {}">>

-----------------------------------------------------------------------------
(* Properties of the defaults of perspective and ortho *)

\* the arguments of a call with every 0 left out
ZerosOmitted(args) ==
  [i \in DOMAIN args |-> IF args[i] = ArgNum(0) THEN ArgUndef ELSE args[i]]

\* C35: perspective and ortho called with 0 for an argument leave the
\* projection matrix of the same call with that argument omitted; ortho with
\* left 0 is built with left = -width/2 and ortho with bottom 0 with
\* bottom = -height/2
ZeroIsDefault ==
  [][/\ hist'.op = "perspective" =>
          rend'.uPMatrix =
            perspective(World, ZerosOmitted(hist'.cam)[1], ZerosOmitted(hist'.cam)[2],
                        ZerosOmitted(hist'.cam)[3], ZerosOmitted(hist'.cam)[4]).rend.uPMatrix
     /\ hist'.op = "ortho" =>
          /\ rend'.uPMatrix =
               ortho(World, ZerosOmitted(hist'.cam)[1], ZerosOmitted(hist'.cam)[2],
                     ZerosOmitted(hist'.cam)[3], ZerosOmitted(hist'.cam)[4],
                     ZerosOmitted(hist'.cam)[5], ZerosOmitted(hist'.cam)[6]).rend.uPMatrix
          /\ (hist'.cam[1] = ArgNum(0) /\ hist'.cam[2] = ArgNum(50)) =>
               rend'.uPMatrix[1] = (-2000) \div (((-rend.width) \div 2) - 50)
          /\ (hist'.cam[3] = ArgNum(0) /\ hist'.cam[4] = ArgNum(30)) =>
               rend'.uPMatrix[6] = (-2000) \div (((-rend.height) \div 2) - 30)]_vars

\* ortho(0, 50, 0, 30, 0, 300) on a canvas which is not square: the matrix
\* has the entries of left = -width/2 and bottom = -height/2
ZeroIsDefaultWitness ==
  /\ hist.op = "ortho" /\ hist.cam = Given(<<0, 50, 0, 30, 0, 300>>)
  /\ rend.width # rend.height
  /\ rend.uPMatrix[1] = (-2000) \div (((-rend.width) \div 2) - 50)
  /\ rend.uPMatrix[1] # (-2000) \div (0 - 50)
  /\ rend.uPMatrix[6] = (-2000) \div (((-rend.height) \div 2) - 30)

-----------------------------------------------------------------------------
(* Properties of the current shader *)

-----------------------------------------------------------------------------
(* Properties of the forms of setAttributes *)

\* C39: after setAttributes(key, value) every flag other than key has its
\* default (alpha, depth, stencil true; antialias, premultipliedAlpha,
\* preserveDrawingBuffer false), whatever the calls before had set
OtherAttributesDefault ==
  (hist.op = "setAttributes" /\ hist.cam = <<2>> /\ hist.name # <<>>) =>
    \A k \in AttributeKeys \ {hist.name[1]} :
      rend.attributes[k] = (k \in OnByDefault)

\* setAttributes('antialias', true), which made a renderer, was followed by
\* setAttributes('preserveDrawingBuffer', true): antialias is false again
OtherAttributesDefaultWitness ==
  /\ hist.op = "setAttributes" /\ ~hist.thrown /\ hist.prev = "setAttributes"
  /\ hist.arg = "antialias" /\ hist.color = <<1>>
  /\ hist.name = <<"preserveDrawingBuffer">> /\ hist.data = BoolVal(TRUE)
  /\ rend.attributes["preserveDrawingBuffer"]
  /\ ~rend.attributes["antialias"]

\* C40: setAttributes on a sketch whose renderer is not a WebGL one, and
\* setAttributes with no argument or with more than two, throws nothing and
\* leaves the renderer, its attributes, the context and the matrices as
\* they were; it only writes to the console
SetAttributesIgnored ==
  [][(\/ hist'.op = "setAttributes (2D)"
      \/ hist'.op = "setAttributes" /\ hist'.cam[1] \notin {1, 2}) =>
       /\ ~hist'.thrown
       /\ rend' = rend
       /\ [gl' EXCEPT !.log = <<>>] = [gl EXCEPT !.log = <<>>]
       /\ heap' = heap /\ uMVMatrixStack' = uMVMatrixStack
       /\ Len(gl'.log) = 1 /\ gl'.log[1].fn = "console.log"]_vars

\* setAttributes('antialias', true) on a 2D sketch, after a WebGL call had
\* set alpha to false
SetAttributesIgnoredWitness ==
  /\ hist.op = "setAttributes (2D)" /\ hist.cam = <<2>>
  /\ hist.name = <<"antialias">> /\ hist.data = BoolVal(TRUE)
  /\ ~rend.attributes["antialias"]
  /\ hist.resets > 0
  /\ gl.log[1].name = <<"only works in WebGL">>

====
